---- MODULE Spec2Model ----
(***************************************************************************)
(* Model of the grss request-serving core: the in-memory cache             *)
(* (cache.MemoryCache), the caching / request-deduplication middleware     *)
(* (middleware.Cache with singleflight), and the gin middleware chain      *)
(* Logger -> AccessControl -> Header -> Parameter -> Cache -> Template ->  *)
(* wrapHandler.                                                            *)
(*                                                                         *)
(* Time is an integer number of seconds.  Cache keys are strings; the      *)
(* sha256 digest of the key data is modelled as the key data itself (the   *)
(* digest is injective for all practical purposes).                        *)
(***************************************************************************)
EXTENDS Integers, Sequences, FiniteSets, TLC

VARIABLES
    items,      \* MemoryCache.items : key -> [value, expiration]
    now,        \* wall clock (time.Now), seconds
    lastOp,     \* observation of the last MemoryCache API call
    req,        \* per request: method, path and query parameters
    pc,         \* per request: the code it runs next
    index,      \* per request: gin Context.index
    stack,      \* per request: the handlers inside their c.Next() call
    resp,       \* per request: gin ResponseWriter (status, body, headers)
    feedData,   \* per request: the "feed_data" context value
    capture,    \* per request: responseWriter wrapper (installed, body)
    doResult,   \* per request: what sf.Do returned
    joined,     \* per request: the singleflight call it waits on / leads
    sfCalls,    \* singleflight.Group.m : key -> leader of the in-flight call
    sfVal,      \* per leader: result of its finished singleflight call
    pendingSet, \* per request: the detached `go c.Set(...)` not yet run
    trace,      \* per request: stage events in execution order
    handled,    \* per request: outcomes of its Handler invocations
    setLog,     \* the cache writes that were spawned
    lookup,     \* per request: what its cache lookup saw
    storedAt,   \* per cache key: when the resident entry was stored
    abortedBy,  \* per request: the handler that called c.Abort()
    accessKey,  \* config.C.AccessKey
    cancelled,  \* per request: its client went away, before or after its Handler ran
    arrived,    \* per request: the requests already complete when the engine took it
    tg,         \* the TryGet call in progress and what the last one returned
    rd,         \* a FeedDocument, a URL and the renders made of them
    cl,         \* the client.Client call in progress: attempts and result
    rc          \* RedisCache: the server's keys and the calls in progress

pipeVars == <<req, pc, index, stack, resp, feedData, capture, doResult,
              joined, sfCalls, sfVal, pendingSet, trace, handled, setLog,
              lookup, storedAt, abortedBy, accessKey, cancelled, arrived, tg,
          rd, cl, rc>>

\* what the handlers of the chain never write
sideVars == <<accessKey, cancelled, arrived, tg, rd, cl, rc>>

\* the renders, the client call and the Redis server
auxVars == <<rd, cl, rc>>

\* the server's own state, clock aside
coreVars == <<items, lastOp, req, pc, index, stack, resp, feedData, capture,
              doResult, joined, sfCalls, sfVal, pendingSet, trace, handled,
              setLog, lookup, storedAt, abortedBy, accessKey, cancelled,
              arrived, tg>>

vars == <<items, now, lastOp, req, pc, index, stack, resp, feedData, capture,
          doResult, joined, sfCalls, sfVal, pendingSet, trace, handled, setLog,
          lookup, storedAt, abortedBy, accessKey, cancelled, arrived, tg,
          rd, cl, rc>>

-----------------------------------------------------------------------------
(* Bounds and constants                                                    *)

\* capacity handed to NewMemoryCache
maxItems == 2

\* last clock value explored for the stand-alone cache
MaxMemNow == 3

\* keys, payloads and TTLs used to drive the stand-alone cache
MemKeys == {"", "a", "b"}
MemValues == {"v1", "v2"}
MemTTLs == {1, 2}

-----------------------------------------------------------------------------
(* cache.MemoryCache                                                       *)

NoItems == [k \in {} |-> [value |-> "", expiration |-> 0]]

NoOp == [op |-> "none", key |-> "", value |-> "", err |-> "", at |-> 0,
         before |-> NoItems, evicted |-> {}]

\* an expiration test that lets an entry live one second too long
Expired_OneLate(item, t) == t > item.expiration + 1

\* time.Now().After(item.expiration)
Expired(item, t) == t > item.expiration

\* MemoryGet with the expiration test left out
MemoryGet_NoExpiry(its, key, t) ==
    IF key \notin DOMAIN its
    THEN [value |-> "", err |-> "cache miss"]
    ELSE [value |-> its[key].value, err |-> ""]

\* MemoryCache.Get: ("", err) on absent or expired, (value, nil) otherwise
MemoryGet(its, key, t) ==
    IF key \notin DOMAIN its
    THEN [value |-> "", err |-> "cache miss"]
    ELSE IF Expired(its[key], t)
         THEN [value |-> "", err |-> "cache expired"]
         ELSE [value |-> its[key].value, err |-> ""]

\* the orders in which `for key, item := range m.items` may visit the map
RangeOrders(its) ==
    LET D == DOMAIN its
        n == Cardinality(D)
    IN  {s \in [1..n -> D] : \A i, j \in 1..n : i # j => s[i] # s[j]}

\* the loop of evictOldest over one visiting order: the chosen oldestKey
RECURSIVE OldestScan(_, _, _, _, _)
OldestScan(its, order, i, oldestKey, oldestTime) ==
    IF i > Len(order)
    THEN oldestKey
    ELSE LET key == order[i]
             item == its[key]
         IN  IF oldestKey = "" \/ item.expiration < oldestTime
             THEN OldestScan(its, order, i + 1, key, item.expiration)
             ELSE OldestScan(its, order, i + 1, oldestKey, oldestTime)

\* MemoryCache.evictOldest
evictOldest(its, order) ==
    LET oldestKey == OldestScan(its, order, 1, "", 0)
    IN  IF oldestKey # ""
        THEN [k \in DOMAIN its \ {oldestKey} |-> its[k]]
        ELSE its

\* MemoryCache.Set
MemorySet(its, key, value, ttl, t, order) ==
    LET kept == IF Cardinality(DOMAIN its) >= maxItems
                THEN evictOldest(its, order)
                ELSE its
    IN  [k \in DOMAIN kept \cup {key} |->
            IF k = key THEN [value |-> value, expiration |-> t + ttl]
                       ELSE kept[k]]

\* the keys the eviction step of a Set removes (empty when the map is not full)
SetEvicted(its, order) ==
    IF Cardinality(DOMAIN its) >= maxItems
    THEN DOMAIN its \ DOMAIN evictOldest(its, order)
    ELSE {}

\* a Delete that drops the whole map
MemoryDelete_All(its, key) == NoItems

\* MemoryCache.Delete
MemoryDelete(its, key) == [k \in DOMAIN its \ {key} |-> its[k]]

\* one pass of MemoryCache.cleanup
MemorySweep(its, t) == [k \in {x \in DOMAIN its : ~Expired(its[x], t)} |-> its[k]]

-----------------------------------------------------------------------------
(* Configuration, requests and feed documents                              *)

\* number of requests served
NumReqs == 2

\* last clock value explored while requests are served
MaxNow == 301

Reqs == 1..NumReqs

\* config.C.Cache.RouteExpire (seconds), config.C.AccessKey; the cache type
\* is "memory"
RouteExpire == 300
AccessKey == "secret"

\* c.Request.Host
Host == "grss.local"

ParamNames == <<"format", "limit", "filter", "filterout", "filter_title",
                "filter_description", "filter_time", "sorted", "key", "code">>

NoQuery == [n \in {ParamNames[i] : i \in 1..Len(ParamNames)} |-> ""]

NoRequest == [method |-> "", path |-> "", q |-> NoQuery, inm |-> ""]

\* md5 hex digest of path + access key (modelled as an injective tag)
CodeFor(path, key) == "md5(" \o path \o key \o ")"

\* the requests a client sends
ReqInputs ==
    LET get == [method |-> "GET", path |-> "/ns/route", q |-> NoQuery, inm |-> ""]
        ok == [NoQuery EXCEPT !["key"] = AccessKey]
    IN  { [get EXCEPT !.q = ok],
          [get EXCEPT !.q = [ok EXCEPT !["filterout"] = "(?i)bug",
                                       !["sorted"] = "desc"]],
          [get EXCEPT !.q = [ok EXCEPT !["limit"] = "1", !["filter"] = "(?i)bug"]],
          get,
          [get EXCEPT !.method = "OPTIONS", !.q = ok] }

\* c.Query(name)
Query(rq, name) == rq.q[name]

\* c.DefaultQuery(name, def)
DefaultQuery(rq, name, def) == IF rq.q[name] = "" THEN def ELSE rq.q[name]

RECURSIVE RawQueryFrom(_, _)
RawQueryFrom(q, i) ==
    IF i > Len(ParamNames)
    THEN ""
    ELSE LET n == ParamNames[i]
             rest == RawQueryFrom(q, i + 1)
         IN  IF q[n] = "" THEN rest
             ELSE n \o "=" \o q[n] \o (IF rest = "" THEN "" ELSE "&" \o rest)

\* c.Request.URL.String()
URLString(rq) ==
    LET raw == RawQueryFrom(rq.q, 1)
    IN  rq.path \o (IF raw = "" THEN "" ELSE "?" \o raw)

\* currentURL as Template builds it
currentURL(rq) ==
    IF Host # "" THEN "http://" \o Host \o URLString(rq) ELSE URLString(rq)

\* feed.Item: identity, whether "(?i)bug" matches its title / description,
\* and its PubDate (seconds)
MkItem(id, t, d, pub) == [id |-> id, titleHit |-> t, descHit |-> d, pub |-> pub]

\* what the upstream may hold when a Handler runs
DocA == <<MkItem("Bug A", TRUE, FALSE, -7200),
          MkItem("Feature B", FALSE, FALSE, -3600),
          MkItem("Bug C", TRUE, TRUE, -10800)>>
DocB == <<MkItem("Feature D", FALSE, TRUE, -100)>>

\* RouteHandler results: a *feed.Data or an error
HandlerOutcomes ==
    { [err |-> "", items |-> DocA],
      [err |-> "", items |-> DocB],
      [err |-> "upstream failed", items |-> <<>>] }

NoData == [exists |-> FALSE, items |-> <<>>]

-----------------------------------------------------------------------------
(* Parameter transform (middleware.Parameter helpers)                      *)

\* regexp.Compile succeeds
Compiles(pattern) == pattern # "[invalid("

\* strconv.Atoi on the strings clients send
AtoiTable == ("0" :> 0) @@ ("1" :> 1) @@ ("2" :> 2) @@ ("3600" :> 3600) @@
             ("-1" :> 0 - 1)
AtoiOK(s) == s \in DOMAIN AtoiTable
Atoi(s) == AtoiTable[s]

Xor(matches, inverse) == IF inverse THEN ~matches ELSE matches

filterItems(its, pattern, inverse) ==
    IF ~Compiles(pattern) THEN its
    ELSE LET keep(item) == Xor(item.titleHit \/ item.descHit, inverse)
         IN  SelectSeq(its, keep)

filterByTitle(its, pattern, inverse) ==
    IF ~Compiles(pattern) THEN its
    ELSE LET keep(item) == Xor(item.titleHit, inverse)
         IN  SelectSeq(its, keep)

filterByDescription(its, pattern, inverse) ==
    IF ~Compiles(pattern) THEN its
    ELSE LET keep(item) == Xor(item.descHit, inverse)
         IN  SelectSeq(its, keep)

\* filterByTime giving up on a value strconv.Atoi rejects
filterByTime_Strict(its, timeStr, t) ==
    IF ~AtoiOK(timeStr) THEN <<>>
    ELSE LET cutoff == t - Atoi(timeStr)
             keep(item) == item.pub > cutoff
         IN  SelectSeq(its, keep)

filterByTime(its, timeStr, t) ==
    IF ~AtoiOK(timeStr) THEN its
    ELSE LET cutoff == t - Atoi(timeStr)
             keep(item) == item.pub > cutoff
         IN  SelectSeq(its, keep)

\* the comparison handed to sort.Slice
SortLess(a, b, order) == IF order = "desc" THEN a.pub > b.pub ELSE a.pub < b.pub

\* sortItems: sort.Slice is not stable, so any ordered permutation may result
sortItems(its, order) ==
    LET n == Len(its)
        perms == {p \in [1..n -> 1..n] : \A i, j \in 1..n : i # j => p[i] # p[j]}
    IN  { [i \in 1..n |-> its[p[i]]] : p \in
            {p \in perms : \A i, j \in 1..n :
                i < j => ~SortLess(its[p[j]], its[p[i]], order)} }

\* the limit step
limitItems(its, limitStr) ==
    IF AtoiOK(limitStr) /\ Atoi(limitStr) > 0 /\ Atoi(limitStr) < Len(its)
    THEN SubSeq(its, 1, Atoi(limitStr))
    ELSE its

\* the filter steps of Parameter, in the order the code applies them
filterSteps(its, rq, t) ==
    LET s1 == IF Query(rq, "filter") # ""
              THEN filterItems(its, Query(rq, "filter"), FALSE) ELSE its
        s2 == IF Query(rq, "filterout") # ""
              THEN filterItems(s1, Query(rq, "filterout"), TRUE) ELSE s1
        s3 == IF Query(rq, "filter_title") # ""
              THEN filterByTitle(s2, Query(rq, "filter_title"), FALSE) ELSE s2
        s4 == IF Query(rq, "filter_description") # ""
              THEN filterByDescription(s3, Query(rq, "filter_description"), FALSE)
              ELSE s3
    IN  IF Query(rq, "filter_time") # ""
        THEN filterByTime(s4, Query(rq, "filter_time"), t) ELSE s4

\* the transform with the limit taken before the sort
transformItems_LimitFirst(its, rq, t) ==
    LET filtered == filterSteps(its, rq, t)
        cut == IF Query(rq, "limit") # ""
               THEN limitItems(filtered, Query(rq, "limit")) ELSE filtered
    IN  IF Query(rq, "sorted") # "" THEN sortItems(cut, Query(rq, "sorted"))
        ELSE {cut}

\* everything Parameter does to data.Item: the possible results
transformItems(its, rq, t) ==
    LET filtered == filterSteps(its, rq, t)
        sortedSet == IF Query(rq, "sorted") # ""
                     THEN sortItems(filtered, Query(rq, "sorted"))
                     ELSE {filtered}
    IN  { IF Query(rq, "limit") # "" THEN limitItems(s, Query(rq, "limit")) ELSE s
          : s \in sortedSet }

-----------------------------------------------------------------------------
(* Rendering and the response writer                                       *)

RECURSIVE ItemsText(_)
ItemsText(its) ==
    IF its = <<>> THEN "" ELSE "<item>" \o Head(its).id \o "</item>" \o ItemsText(Tail(its))

\* feed.GenerateRSS / GenerateAtom / GenerateJSON as Template selects them:
\* the output names the format, the self link and the entries in order
GenerateFeed(format, its, url) ==
    LET kind == IF format = "atom" THEN "atom"
                ELSE IF format = "json" THEN "json" ELSE "rss"
    IN  "<" \o kind \o " self=" \o url \o ">" \o ItemsText(its) \o "</" \o kind \o ">"

\* getContentType and the content types Template sets
getContentType(format) ==
    IF format = "atom" THEN "application/atom+xml; charset=utf-8"
    ELSE IF format = "json" THEN "application/json; charset=utf-8"
    ELSE "application/rss+xml; charset=utf-8"

JSONType == "application/json; charset=utf-8"

\* gin.H{"error": gin.H{"message": msg}} as c.JSON writes it
ErrorJSON(msg) == "{\"error\":{\"message\":\"" \o msg \o "\"}}"

NoHeaders == [cacheStatus |-> "", contentType |-> "", cacheControl |-> "",
              etag |-> "", xbody |-> "", cors |-> FALSE]

\* a fresh gin ResponseWriter: status 200, nothing written
NewWriter == [status |-> 200, body |-> "", written |-> FALSE,
              hdr |-> NoHeaders, sent |-> NoHeaders]

\* c.Header(name, value)
SetHeader(w, name, value) == [w EXCEPT !.hdr[name] = value]

\* c.String / c.JSON: the status sticks unless a body went out already, the
\* content type is set unless present, headers leave with the first write
WriteResp(w, code, ctype, s) ==
    LET h == [w.hdr EXCEPT !.contentType = IF @ = "" THEN ctype ELSE @]
    IN  [status |-> IF w.written THEN w.status ELSE code,
         body |-> w.body \o s,
         written |-> TRUE,
         hdr |-> h,
         sent |-> IF w.written THEN w.sent ELSE h]

\* c.AbortWithStatus(code): status and headers go out, no body
WriteStatus(w, code) ==
    [w EXCEPT !.status = IF w.written THEN @ ELSE code,
              !.written = TRUE,
              !.sent = IF w.written THEN @ ELSE w.hdr]

NoCapture == [on |-> FALSE, body |-> ""]
NoSet == [key |-> "", value |-> "", ttl |-> 0]
NoVal == [done |-> FALSE, val |-> ""]
\* the entry the last storing TryGet call left in the store, if any
NoPrev == [key |-> "", item |-> [value |-> "", expiration |-> 0], result |-> ""]

\* no TryGet call made yet
NoTryGet == [pc |-> "idle", key |-> "", ttl |-> 0, at |-> 0,
             got |-> [value |-> "", err |-> ""],
             seen |-> [value |-> "", expiration |-> 0],
             calls |-> 0, gval |-> "", gerr |-> "", result |-> "", err |-> "",
             stored |-> FALSE, prev |-> NoPrev, prevAtCall |-> NoPrev]

NoLookup == [done |-> FALSE, at |-> 0, hit |-> FALSE, resident |-> FALSE,
             storedAt |-> 0, value |-> "", failed |-> FALSE]

\* nothing rendered, no document
NoRender == [data |-> [pubDate |-> 0, lastBuildDate |-> 0, item |-> <<>>],
             url |-> "", outs |-> <<>>]

\* no client call made
NoClient == [pc |-> "idle", method |-> "", maxRetries |-> 0, attempt |-> 0,
             seen |-> <<>>, lastErr |-> "", body |-> "", err |-> ""]

\* a RedisCache call not made: the method, its next command, its arguments
\* and result, and, for the record, whether a key was missing when it began
\* (missing), whether another caller wrote since it began (disturbed) and
\* whether its tracking-key write is still the last write (clean)
NoCall == [op |-> "", pc |-> "idle", value |-> "", ttl |-> 0, err |-> "",
           missing |-> FALSE, disturbed |-> FALSE, clean |-> FALSE]

\* an empty Redis server: no primary key (data), no tracking key (exp, the
\* instant it expires, 0 without one); est is the expiry the last tracking-key
\* write set, stale whether a Get has since re-armed the key with a TTL it
\* read before another caller's write
NoRedis == [data |-> "", exp |-> 0, est |-> 0, stale |-> FALSE,
            call |-> [p \in {1, 2} |-> NoCall]]

-----------------------------------------------------------------------------
(* gin's handler chain                                                     *)

\* the chain with Parameter registered after Template
Chain_ParameterInner == <<"Logger", "AccessControl", "Header", "Cache",
                          "Template", "Parameter", "Handler">>

\* router.Use(...) in main, then the route's wrapHandler
Chain == <<"Logger", "AccessControl", "Header", "Parameter", "Cache",
           "Template", "Handler">>

\* gin's abortIndex, the value c.Abort() stores in c.index
AbortIndex == 63

\* c.Next() called by a handler whose remaining code starts at `post`:
\* c.index++, then the handlers that follow run inside this call
CallNext(idx, stk, post) ==
    IF idx + 1 < Len(Chain)
    THEN [pc |-> Chain[idx + 2], index |-> idx + 1, stack |-> Append(stk, post)]
    ELSE [pc |-> post, index |-> idx + 1, stack |-> stk]

\* a handler returns into the c.Next() loop that called it: c.index++, then
\* either the next handler runs or the loop ends and c.Next() returns
AfterReturn(idx, stk) ==
    IF idx + 1 < Len(Chain)
    THEN [pc |-> Chain[idx + 2], index |-> idx + 1, stack |-> stk]
    ELSE IF stk = <<>>
         THEN [pc |-> "done", index |-> idx + 1, stack |-> stk]
         ELSE [pc |-> stk[Len(stk)], index |-> idx + 1,
               stack |-> SubSeq(stk, 1, Len(stk) - 1)]

Goto(r, n) ==
    /\ pc' = [pc EXCEPT ![r] = n.pc]
    /\ index' = [index EXCEPT ![r] = n.index]
    /\ stack' = [stack EXCEPT ![r] = n.stack]

Log(r, event) == trace' = [trace EXCEPT ![r] = Append(@, event)]

\* a wrapper that forwards the bytes without keeping them
Captured_Nothing(cap, s) == cap

\* responseWriter.Write / WriteString: the wrapper, once installed, appends
\* the bytes to its copy
Captured(cap, s) == IF cap.on THEN [cap EXCEPT !.body = @ \o s] ELSE cap

\* a write through ctx.Writer
WriteBody(r, code, ctype, s) ==
    /\ resp' = [resp EXCEPT ![r] = WriteResp(@, code, ctype, s)]
    /\ capture' = [capture EXCEPT ![r] = Captured(@, s)]

\* the engine takes a request and starts the chain with c.index = -1
Serve(r, inputs) ==
    /\ UNCHANGED <<accessKey, cancelled, tg, rd, cl, rc>>
    /\ pc[r] = "start"
    /\ \E rq \in inputs : req' = [req EXCEPT ![r] = rq]
    /\ arrived' = [arrived EXCEPT ![r] = {p \in Reqs : pc[p] = "done"}]
    /\ Goto(r, CallNext(0 - 1, <<>>, "done"))
    /\ UNCHANGED <<items, now, lastOp, resp, feedData, capture, doResult,
                   joined, sfCalls, sfVal, pendingSet, trace, handled, setLog>>
    /\ UNCHANGED <<lookup, storedAt, abortedBy>>

ServeHTTP(r) == Serve(r, ReqInputs)

-----------------------------------------------------------------------------
(* middleware.Logger                                                       *)

Logger(r) ==
    /\ UNCHANGED sideVars
    /\ pc[r] = "Logger"
    /\ Log(r, "Logger")
    /\ Goto(r, CallNext(index[r], stack[r], "Logger.post"))
    /\ UNCHANGED <<items, now, lastOp, req, resp, feedData, capture, doResult,
                   joined, sfCalls, sfVal, pendingSet, handled, setLog>>
    /\ UNCHANGED <<lookup, storedAt, abortedBy>>

LoggerPost(r) ==
    /\ UNCHANGED sideVars
    /\ pc[r] = "Logger.post"
    /\ Log(r, "Logger.post")
    /\ Goto(r, AfterReturn(index[r], stack[r]))
    /\ UNCHANGED <<items, now, lastOp, req, resp, feedData, capture, doResult,
                   joined, sfCalls, sfVal, pendingSet, handled, setLog>>
    /\ UNCHANGED <<lookup, storedAt, abortedBy>>

-----------------------------------------------------------------------------
(* middleware.AccessControl                                                *)

bypassPaths == {"/", "/robots.txt", "/favicon.ico", "/healthz"}

\* access rules that know no bypass list
AccessAllowed_NoBypass(rq) ==
    \/ accessKey = ""
    \/ Query(rq, "key") = accessKey
    \/ Query(rq, "code") = CodeFor(rq.path, accessKey)

\* the request may proceed
AccessAllowed(rq) ==
    \/ rq.path \in bypassPaths
    \/ accessKey = ""
    \/ Query(rq, "key") = accessKey
    \/ Query(rq, "code") = CodeFor(rq.path, accessKey)

AccessControl(r) ==
    /\ UNCHANGED sideVars
    /\ pc[r] = "AccessControl"
    /\ Log(r, "AccessControl")
    /\ IF AccessAllowed(req[r])
       THEN /\ Goto(r, CallNext(index[r], stack[r], "AccessControl.post"))
            /\ UNCHANGED <<resp, capture>>
       ELSE /\ WriteBody(r, 403, JSONType, ErrorJSON("Access denied"))
            /\ Goto(r, AfterReturn(AbortIndex, stack[r]))
    /\ abortedBy' = [abortedBy EXCEPT ![r] =
                        IF AccessAllowed(req[r]) THEN @ ELSE "AccessControl"]
    /\ UNCHANGED <<items, now, lastOp, req, feedData, doResult, joined,
                   sfCalls, sfVal, pendingSet, handled, setLog>>
    /\ UNCHANGED <<lookup, storedAt>>

AccessControlPost(r) ==
    /\ UNCHANGED sideVars
    /\ pc[r] = "AccessControl.post"
    /\ Log(r, "AccessControl.post")
    /\ Goto(r, AfterReturn(index[r], stack[r]))
    /\ UNCHANGED <<items, now, lastOp, req, resp, feedData, capture, doResult,
                   joined, sfCalls, sfVal, pendingSet, handled, setLog>>
    /\ UNCHANGED <<lookup, storedAt, abortedBy>>

-----------------------------------------------------------------------------
(* middleware.Header                                                       *)

\* sha256 of the body, quoted (modelled as an injective tag)
ETagOf(body) == "\"sha256(" \o body \o ")\""

CacheControlValue == "public, max-age=" \o ToString(RouteExpire)

Header(r) ==
    /\ UNCHANGED sideVars
    /\ pc[r] = "Header"
    /\ Log(r, "Header")
    /\ IF req[r].method = "OPTIONS"
       THEN /\ resp' = [resp EXCEPT ![r] =
                           WriteStatus(SetHeader(@, "cors", TRUE), 204)]
            /\ Goto(r, AfterReturn(AbortIndex, stack[r]))
       ELSE /\ resp' = [resp EXCEPT ![r] = SetHeader(@, "cors", TRUE)]
            /\ Goto(r, CallNext(index[r], stack[r], "Header.post"))
    /\ abortedBy' = [abortedBy EXCEPT ![r] =
                        IF req[r].method = "OPTIONS" THEN "Header" ELSE @]
    /\ UNCHANGED <<items, now, lastOp, req, feedData, capture, doResult,
                   joined, sfCalls, sfVal, pendingSet, handled, setLog>>
    /\ UNCHANGED <<lookup, storedAt>>

HeaderPost(r) ==
    /\ UNCHANGED sideVars
    /\ pc[r] = "Header.post"
    /\ Log(r, "Header.post")
    /\ LET w == resp[r]
           body == w.hdr.xbody
           tagged == IF body # "" THEN SetHeader(w, "etag", ETagOf(body)) ELSE w
       IN  IF w.status # 200
           THEN /\ UNCHANGED resp
                /\ Goto(r, AfterReturn(index[r], stack[r]))
           ELSE IF body # "" /\ req[r].inm = ETagOf(body)
                THEN /\ resp' = [resp EXCEPT ![r] = WriteStatus(tagged, 304)]
                     /\ Goto(r, AfterReturn(AbortIndex, stack[r]))
                ELSE /\ resp' = [resp EXCEPT ![r] =
                                    SetHeader(tagged, "cacheControl",
                                              CacheControlValue)]
                     /\ Goto(r, AfterReturn(index[r], stack[r]))
    /\ UNCHANGED <<items, now, lastOp, req, feedData, capture, doResult,
                   joined, sfCalls, sfVal, pendingSet, handled, setLog>>
    /\ UNCHANGED <<lookup, storedAt, abortedBy>>

-----------------------------------------------------------------------------
(* middleware.Parameter                                                    *)

Parameter(r) ==
    /\ UNCHANGED sideVars
    /\ pc[r] = "Parameter"
    /\ Log(r, "Parameter")
    /\ Goto(r, CallNext(index[r], stack[r], "Parameter.post"))
    /\ UNCHANGED <<items, now, lastOp, req, resp, feedData, capture, doResult,
                   joined, sfCalls, sfVal, pendingSet, handled, setLog>>
    /\ UNCHANGED <<lookup, storedAt, abortedBy>>

ParameterPost(r) ==
    /\ UNCHANGED sideVars
    /\ pc[r] = "Parameter.post"
    /\ Log(r, "Parameter.post")
    /\ IF ~feedData[r].exists
       THEN UNCHANGED feedData
       ELSE \E out \in transformItems(feedData[r].items, req[r], now) :
                feedData' = [feedData EXCEPT ![r].items = out]
    /\ Goto(r, AfterReturn(index[r], stack[r]))
    /\ UNCHANGED <<items, now, lastOp, req, resp, capture, doResult,
                   joined, sfCalls, sfVal, pendingSet, handled, setLog>>
    /\ UNCHANGED <<lookup, storedAt, abortedBy>>

-----------------------------------------------------------------------------
(* middleware.Cache                                                        *)

\* cacheKey: "grss:cache:" + sha256(path:format:limit)
CacheKey(rq) ==
    "grss:cache:" \o rq.path \o ":" \o DefaultQuery(rq, "format", "rss")
                  \o ":" \o Query(rq, "limit")

\* a group that never finds a call in flight
InFlight_Never(calls, key) == FALSE

\* singleflight: a call for this key is in flight

InFlight(calls, key) == key \in DOMAIN calls

\* the condition with the status test dropped
ShouldCache_AnyStatus(status, response) == response # ""

\* the leader stores the response only when it is a non-empty 200

ShouldCache(status, response) == status = 200 /\ response # ""

\* a hit written without the GRSS-Cache-Status header
HitResponse_NoStatusHeader(w, format, cached) ==
    WriteResp(SetHeader(w, "contentType", getContentType(format)),
              200, "text/plain; charset=utf-8", cached)

\* lines 38-40: the headers and the body of a cache hit
HitResponse(w, format, cached) ==
    WriteResp(SetHeader(SetHeader(w, "cacheStatus", "HIT"),
                        "contentType", getContentType(format)),
              200, "text/plain; charset=utf-8", cached)

\* a lookup that takes every error but a miss for a hit
IsHit_UnlessMiss(got) == got.err \notin {"cache miss", "cache expired"}

\* line 36: what the lookup returned counts as a hit
IsHit(got) == got.err = "" /\ got.value # ""

\* lines 27-43: cache lookup; a hit is written out and the chain aborted.
\* (main installs this middleware only when a cache exists, CacheType # "",
\* so the "caching disabled" branch of lines 22-25 is never taken.)
CacheWith(r, got, failed) ==
    /\ UNCHANGED sideVars
    /\ pc[r] = "Cache"
    /\ Log(r, "Cache")
    /\ LET key == CacheKey(req[r])
           hit == IsHit(got)
       IN  /\ lookup' = [lookup EXCEPT ![r] =
                  [done |-> TRUE, at |-> now, hit |-> hit,
                   resident |-> key \in DOMAIN items,
                   storedAt |-> IF key \in DOMAIN storedAt
                                THEN storedAt[key] ELSE 0,
                   value |-> got.value, failed |-> failed]]
           /\ abortedBy' = [abortedBy EXCEPT ![r] = IF hit THEN "Cache" ELSE @]
           /\ IF hit
              THEN /\ resp' = [resp EXCEPT ![r] =
                         HitResponse(@, DefaultQuery(req[r], "format", "rss"),
                                     got.value)]
                   /\ Goto(r, AfterReturn(AbortIndex, stack[r]))
              ELSE /\ pc' = [pc EXCEPT ![r] = "Cache.do"]
                   /\ UNCHANGED <<index, stack, resp>>
    /\ UNCHANGED <<items, now, lastOp, req, feedData, capture, doResult,
                   joined, sfCalls, sfVal, pendingSet, handled, setLog>>
    /\ UNCHANGED storedAt

\* the handler with the in-memory store behind c.Get
Cache(r) == CacheWith(r, MemoryGet(items, CacheKey(req[r]), now), FALSE)

\* what c.Get returns when the store cannot be reached (RedisCache.Get
\* passes the client's error on)
StoreDown == [value |-> "", err |-> "store unavailable"]

\* the handler when c.Get fails
CacheGetFail(r) == CacheWith(r, StoreDown, TRUE)

\* line 46, sf.Do: join the call in flight for the key, or become its leader
\* and run the function: wrap the writer, then ctx.Next()
CacheDo(r) ==
    /\ UNCHANGED sideVars
    /\ pc[r] = "Cache.do"
    /\ LET key == CacheKey(req[r])
       IN  IF InFlight(sfCalls, key)
           THEN /\ joined' = [joined EXCEPT ![r] = sfCalls[key]]
                /\ pc' = [pc EXCEPT ![r] = "Cache.wait"]
                /\ UNCHANGED <<index, stack, sfCalls, capture>>
           ELSE /\ joined' = [joined EXCEPT ![r] = r]
                /\ sfCalls' = [k \in DOMAIN sfCalls \cup {key} |->
                                  IF k = key THEN r ELSE sfCalls[k]]
                /\ capture' = [capture EXCEPT ![r] = [on |-> TRUE, body |-> ""]]
                /\ Goto(r, CallNext(index[r], stack[r], "Cache.fn"))
    /\ UNCHANGED <<items, now, lastOp, req, resp, feedData, doResult,
                   sfVal, pendingSet, trace, handled, setLog>>
    /\ UNCHANGED <<lookup, storedAt, abortedBy>>

\* lines 57-71: the rest of the leader's function after ctx.Next(), and the
\* end of the singleflight call (result published, key forgotten)
CacheFn(r) ==
    /\ UNCHANGED sideVars
    /\ pc[r] = "Cache.fn"
    /\ LET response == capture[r].body
           key == CacheKey(req[r])
       IN  /\ IF ShouldCache(resp[r].status, response)
              THEN /\ pendingSet' = [pendingSet EXCEPT ![r] =
                          [key |-> key, value |-> response, ttl |-> RouteExpire]]
                   /\ setLog' = setLog \cup
                          {[by |-> r, key |-> key, value |-> response,
                            status |-> resp[r].status, ttl |-> RouteExpire]}
              ELSE UNCHANGED <<pendingSet, setLog>>
           /\ sfVal' = [sfVal EXCEPT ![r] = [done |-> TRUE, val |-> response]]
           /\ sfCalls' = [k \in DOMAIN sfCalls \ {key} |-> sfCalls[k]]
           /\ doResult' = [doResult EXCEPT ![r] = response]
    /\ pc' = [pc EXCEPT ![r] = "Cache.post"]
    /\ UNCHANGED <<items, now, lastOp, req, index, stack, resp, feedData,
                   capture, joined, trace, handled>>
    /\ UNCHANGED <<lookup, storedAt, abortedBy>>

\* a follower that stores the shared result as well
CacheWait_Stores(r) ==
    /\ UNCHANGED sideVars
    /\ pc[r] = "Cache.wait"
    /\ sfVal[joined[r]].done
    /\ doResult' = [doResult EXCEPT ![r] = sfVal[joined[r]].val]
    /\ pendingSet' = [pendingSet EXCEPT ![r] =
           [key |-> CacheKey(req[r]), value |-> sfVal[joined[r]].val,
            ttl |-> RouteExpire]]
    /\ setLog' = setLog \cup {[by |-> r, key |-> CacheKey(req[r]),
                                value |-> sfVal[joined[r]].val,
                                status |-> resp[r].status, ttl |-> RouteExpire]}
    /\ pc' = [pc EXCEPT ![r] = "Cache.post"]
    /\ UNCHANGED <<items, now, lastOp, req, index, stack, resp, feedData,
                   capture, joined, sfCalls, sfVal, trace, handled>>
    /\ UNCHANGED <<lookup, storedAt, abortedBy>>

\* a follower's sf.Do returns once the call it joined has finished
CacheWait(r) ==
    /\ UNCHANGED sideVars
    /\ pc[r] = "Cache.wait"
    /\ sfVal[joined[r]].done
    /\ doResult' = [doResult EXCEPT ![r] = sfVal[joined[r]].val]
    /\ pc' = [pc EXCEPT ![r] = "Cache.post"]
    /\ UNCHANGED <<items, now, lastOp, req, index, stack, resp, feedData,
                   capture, joined, sfCalls, sfVal, pendingSet, trace, handled,
                   setLog>>
    /\ UNCHANGED <<lookup, storedAt, abortedBy>>

\* lines 74-81: after sf.Do; the handler then returns without aborting
CachePost(r) ==
    /\ UNCHANGED sideVars
    /\ pc[r] = "Cache.post"
    /\ Log(r, "Cache.post")
    /\ resp' = [resp EXCEPT ![r] =
                   IF doResult[r] # "" /\ @.status = 200
                   THEN SetHeader(@, "cacheStatus", "MISS") ELSE @]
    /\ Goto(r, AfterReturn(index[r], stack[r]))
    /\ UNCHANGED <<items, now, lastOp, req, feedData, capture, doResult,
                   joined, sfCalls, sfVal, pendingSet, handled, setLog>>
    /\ UNCHANGED <<lookup, storedAt, abortedBy>>

\* lines 62-68: the detached goroutine stores the response
CacheStore(r) ==
    /\ UNCHANGED sideVars
    /\ pendingSet[r] # NoSet
    /\ \E order \in RangeOrders(items) :
           items' = MemorySet(items, pendingSet[r].key, pendingSet[r].value,
                              pendingSet[r].ttl, now, order)
    /\ storedAt' = [k \in DOMAIN items' |->
                       IF k = pendingSet[r].key THEN now ELSE storedAt[k]]
    /\ pendingSet' = [pendingSet EXCEPT ![r] = NoSet]
    /\ UNCHANGED <<now, lastOp, req, pc, index, stack, resp, feedData, capture,
                   doResult, joined, sfCalls, sfVal, trace, handled, setLog>>
    /\ UNCHANGED <<lookup, abortedBy>>

\* lines 64-67: c.Set returns an error; the goroutine logs it and ends
CacheStoreFail(r) ==
    /\ pendingSet[r] # NoSet
    /\ pendingSet' = [pendingSet EXCEPT ![r] = NoSet]
    /\ UNCHANGED <<items, now, lastOp, req, pc, index, stack, resp, feedData,
                   capture, doResult, joined, sfCalls, sfVal, trace, handled,
                   setLog, lookup, storedAt, abortedBy>>
    /\ UNCHANGED sideVars

-----------------------------------------------------------------------------
(* middleware.Template and registry.wrapHandler                            *)

Template(r) ==
    /\ UNCHANGED sideVars
    /\ pc[r] = "Template"
    /\ Log(r, "Template")
    /\ Goto(r, CallNext(index[r], stack[r], "Template.post"))
    /\ UNCHANGED <<items, now, lastOp, req, resp, feedData, capture, doResult,
                   joined, sfCalls, sfVal, pendingSet, handled, setLog>>
    /\ UNCHANGED <<lookup, storedAt, abortedBy>>

TemplatePost(r) ==
    /\ UNCHANGED sideVars
    /\ pc[r] = "Template.post"
    /\ Log(r, "Template.post")
    /\ IF ~feedData[r].exists
       THEN UNCHANGED <<resp, capture>>
       ELSE LET format == DefaultQuery(req[r], "format", "rss")
                output == GenerateFeed(format, feedData[r].items,
                                       currentURL(req[r]))
            IN  WriteBody(r, 200, getContentType(format), output)
    /\ Goto(r, AfterReturn(index[r], stack[r]))
    /\ UNCHANGED <<items, now, lastOp, req, feedData, doResult, joined,
                   sfCalls, sfVal, pendingSet, handled, setLog>>
    /\ UNCHANGED <<lookup, storedAt, abortedBy>>

\* a Handler that gives up once the request's context is cancelled
HandlerResults_Ctx(gone) ==
    IF gone THEN {[err |-> "context canceled", items |-> <<>>]}
    ELSE HandlerOutcomes

\* what a route Handler may return: it fetches with httpClient.Get(url,
\* headers), which takes no context, so the client's going away changes nothing
HandlerResults(gone) == HandlerOutcomes

\* the routes main registers itself; every other path is a feed route
\* mounted by the registry
BuiltinRoutes == {"/", "/healthz", "/robots.txt"}

\* healthzHandler, the last handler of the chain for GET /healthz
healthzHandler(r) ==
    /\ UNCHANGED sideVars
    /\ pc[r] = "Handler"
    /\ req[r].path = "/healthz"
    /\ Log(r, "Handler")
    /\ WriteBody(r, 200, JSONType, "{\"status\":\"ok\"}")
    /\ Goto(r, AfterReturn(index[r], stack[r]))
    /\ UNCHANGED <<items, now, lastOp, req, feedData, doResult, joined,
                   sfCalls, sfVal, pendingSet, handled, setLog>>
    /\ UNCHANGED <<lookup, storedAt, abortedBy>>

wrapHandler(r) ==
    /\ UNCHANGED sideVars
    /\ pc[r] = "Handler"
    /\ req[r].path \notin BuiltinRoutes
    /\ Log(r, "Handler")
    /\ \E out \in HandlerResults(cancelled[r] # "") :
        /\ handled' = [handled EXCEPT ![r] = Append(@, out)]
        /\ IF out.err # ""
           THEN /\ WriteBody(r, 500, JSONType, ErrorJSON(out.err))
                /\ Goto(r, AfterReturn(AbortIndex, stack[r]))
                /\ abortedBy' = [abortedBy EXCEPT ![r] = "Handler"]
                /\ UNCHANGED feedData
           ELSE /\ feedData' = [feedData EXCEPT ![r] =
                                   [exists |-> TRUE, items |-> out.items]]
                /\ Goto(r, AfterReturn(index[r], stack[r]))
                /\ UNCHANGED <<resp, capture, abortedBy>>
    /\ UNCHANGED <<items, now, lastOp, req, doResult, joined, sfCalls, sfVal,
                   pendingSet, setLog>>
    /\ UNCHANGED <<lookup, storedAt>>

-----------------------------------------------------------------------------
(* The server: requests in flight, the cache sweep and the clock           *)

\* no request in the chain, no TryGet call
CoreIdle ==
    /\ req = [r \in Reqs |-> NoRequest]
    /\ pc = [r \in Reqs |-> "start"]
    /\ index = [r \in Reqs |-> 0 - 1]
    /\ stack = [r \in Reqs |-> <<>>]
    /\ resp = [r \in Reqs |-> NewWriter]
    /\ feedData = [r \in Reqs |-> NoData]
    /\ capture = [r \in Reqs |-> NoCapture]
    /\ doResult = [r \in Reqs |-> ""]
    /\ joined = [r \in Reqs |-> 0]
    /\ sfCalls = [k \in {} |-> 0]
    /\ sfVal = [r \in Reqs |-> NoVal]
    /\ pendingSet = [r \in Reqs |-> NoSet]
    /\ trace = [r \in Reqs |-> <<>>]
    /\ handled = [r \in Reqs |-> <<>>]
    /\ setLog = {}
    /\ lookup = [r \in Reqs |-> NoLookup]
    /\ storedAt = [k \in {} |-> 0]
    /\ abortedBy = [r \in Reqs |-> ""]
    /\ cancelled = [r \in Reqs |-> ""]
    /\ arrived = [r \in Reqs |-> {}]
    /\ tg = NoTryGet

PipeIdle ==
    /\ CoreIdle
    /\ rd = NoRender
    /\ cl = NoClient
    /\ rc = NoRedis

Init ==
    /\ items = NoItems
    /\ now = 0
    /\ lastOp = NoOp
    /\ accessKey = AccessKey
    /\ PipeIdle

Sweep ==
    /\ UNCHANGED sideVars
    /\ items' = MemorySweep(items, now)
    /\ items' # items
    /\ storedAt' = [k \in DOMAIN items' |-> storedAt[k]]
    /\ UNCHANGED <<now, lastOp, req, pc, index, stack, resp, feedData, capture,
                   doResult, joined, sfCalls, sfVal, pendingSet, trace, handled,
                   setLog, lookup, abortedBy>>

Tick ==
    /\ \E d \in {RouteExpire, RouteExpire + 1} :
          /\ now + d <= MaxNow
          /\ now' = now + d
    /\ UNCHANGED <<items, lastOp>>
    /\ UNCHANGED pipeVars

Next ==
    \/ \E r \in Reqs :
          \/ ServeHTTP(r)
          \/ Logger(r)
          \/ LoggerPost(r)
          \/ AccessControl(r)
          \/ AccessControlPost(r)
          \/ Header(r)
          \/ HeaderPost(r)
          \/ Parameter(r)
          \/ ParameterPost(r)
          \/ Cache(r)
          \/ CacheDo(r)
          \/ CacheFn(r)
          \/ CacheWait(r)
          \/ CachePost(r)
          \/ CacheStore(r)
          \/ Template(r)
          \/ TemplatePost(r)
          \/ wrapHandler(r)
    \/ Sweep
    \/ Tick

Spec == Init /\ [][Next]_vars

\* the Go scheduler runs every goroutine that was started: a spawned
\* `go c.Set(...)` is not postponed forever
\* the client of a request in flight goes away: net/http cancels the
\* request's context, the handlers keep running
Disconnect(r) ==
    /\ pc[r] \notin {"start", "done"}
    /\ cancelled[r] = ""
    /\ cancelled' = [cancelled EXCEPT ![r] =
                        IF handled[r] = <<>> THEN "early" ELSE "late"]
    /\ UNCHANGED <<items, now, lastOp, req, pc, index, stack, resp, feedData,
                   capture, doResult, joined, sfCalls, sfVal, pendingSet, trace,
                   handled, setLog, lookup, storedAt, abortedBy, accessKey,
                   arrived, tg, rd, cl, rc>>

\* the requests sent while the store fails and clients go away
FaultInputs ==
    LET get == [method |-> "GET", path |-> "/ns/route", q |-> NoQuery, inm |-> ""]
        ok == [NoQuery EXCEPT !["key"] = AccessKey]
    IN  { [get EXCEPT !.q = ok],
          [get EXCEPT !.q = [ok EXCEPT !["limit"] = "1", !["filter"] = "(?i)bug"]] }

ServeFault(r) == Serve(r, FaultInputs)

\* the server, within one cache lifetime, with a store that may fail and
\* clients that may go away
NextFault ==
    \/ \E r \in Reqs :
          \/ ServeFault(r)
          \/ Logger(r)
          \/ LoggerPost(r)
          \/ AccessControl(r)
          \/ AccessControlPost(r)
          \/ Header(r)
          \/ HeaderPost(r)
          \/ Parameter(r)
          \/ ParameterPost(r)
          \/ Cache(r)
          \/ CacheGetFail(r)
          \/ CacheDo(r)
          \/ CacheFn(r)
          \/ CacheWait(r)
          \/ CachePost(r)
          \/ CacheStore(r)
          \/ CacheStoreFail(r)
          \/ Template(r)
          \/ TemplatePost(r)
          \/ wrapHandler(r)
          \/ Disconnect(r)

SpecFault == Init /\ [][NextFault]_vars

\* the requests sent to try the access rules and conditional requests: key,
\* code, neither, a bypassed path, and a revalidation with If-None-Match
GateInputs ==
    LET get == [method |-> "GET", path |-> "/ns/route", q |-> NoQuery, inm |-> ""]
        byKey == [get EXCEPT !.q = [NoQuery EXCEPT !["key"] = AccessKey]]
    IN  { byKey,
          [get EXCEPT !.q = [NoQuery EXCEPT
                                !["code"] = CodeFor("/ns/route", AccessKey)]],
          [get EXCEPT !.q = [NoQuery EXCEPT
                                !["key"] = "wrong",
                                !["code"] = CodeFor("/other", AccessKey)]],
          [get EXCEPT !.path = "/healthz"],
          [byKey EXCEPT !.inm = ETagOf(GenerateFeed("rss", DocB,
                                                    currentURL(byKey)))] }

ServeGate(r) == Serve(r, GateInputs)

\* the server started with or without an access key
InitGate ==
    /\ items = NoItems
    /\ now = 0
    /\ lastOp = NoOp
    /\ accessKey \in {"", AccessKey}
    /\ PipeIdle

\* the server within one cache lifetime
NextGate ==
    \E r \in Reqs :
        \/ ServeGate(r)
        \/ Logger(r)
        \/ LoggerPost(r)
        \/ AccessControl(r)
        \/ AccessControlPost(r)
        \/ Header(r)
        \/ HeaderPost(r)
        \/ Parameter(r)
        \/ ParameterPost(r)
        \/ Cache(r)
        \/ CacheDo(r)
        \/ CacheFn(r)
        \/ CacheWait(r)
        \/ CachePost(r)
        \/ CacheStore(r)
        \/ Template(r)
        \/ TemplatePost(r)
        \/ wrapHandler(r)
        \/ healthzHandler(r)

SpecGate == InitGate /\ [][NextGate]_vars

SpecLive == Init /\ [][Next]_vars /\ \A r \in Reqs : WF_vars(CacheStore(r))

-----------------------------------------------------------------------------
(* Stand-alone cache: API calls in any order, against a ticking clock      *)

InitMem ==
    /\ items = NoItems
    /\ now = 0
    /\ lastOp = NoOp
    /\ accessKey = AccessKey
    /\ PipeIdle

Set(key, value, ttl) ==
    \E order \in RangeOrders(items) :
        /\ items' = MemorySet(items, key, value, ttl, now, order)
        /\ lastOp' = [op |-> "set", key |-> key, value |-> value, err |-> "",
                      at |-> now, before |-> items,
                      evicted |-> SetEvicted(items, order)]
        /\ UNCHANGED now
        /\ UNCHANGED pipeVars

Get(key) ==
    LET r == MemoryGet(items, key, now)
    IN  /\ lastOp' = [op |-> "get", key |-> key, value |-> r.value,
                      err |-> r.err, at |-> now, before |-> items, evicted |-> {}]
        /\ UNCHANGED <<items, now>>
        /\ UNCHANGED pipeVars

Delete(key) ==
    /\ items' = MemoryDelete(items, key)
    /\ lastOp' = [op |-> "delete", key |-> key, value |-> "", err |-> "",
                  at |-> now, before |-> items, evicted |-> {}]
    /\ UNCHANGED now
    /\ UNCHANGED pipeVars

cleanup ==
    /\ items' = MemorySweep(items, now)
    /\ lastOp' = [op |-> "sweep", key |-> "", value |-> "", err |-> "",
                  at |-> now, before |-> items, evicted |-> {}]
    /\ UNCHANGED now
    /\ UNCHANGED pipeVars

TickMem ==
    /\ now < MaxMemNow
    /\ now' = now + 1
    /\ UNCHANGED <<items, lastOp>>
    /\ UNCHANGED pipeVars

NextMem ==
    \/ \E k \in MemKeys, v \in MemValues, ttl \in MemTTLs : Set(k, v, ttl)
    \/ \E k \in MemKeys : Get(k)
    \/ \E k \in MemKeys : Delete(k)
    \/ cleanup
    \/ TickMem

SpecMem == InitMem /\ [][NextMem]_vars

-----------------------------------------------------------------------------
(* The parameter transform on its own: Parameter's code after c.Next(),     *)
(* applied to a document and a query drawn from the sets below             *)

\* three entries without "bug", timestamped T, T+1h, T-1h (T = -7200), and
\* two entries with one timestamp
DocPlain == <<MkItem("X", FALSE, FALSE, -7200),
              MkItem("Y", FALSE, FALSE, -3600),
              MkItem("Z", FALSE, FALSE, -10800)>>
DocTie == <<MkItem("Bug P", TRUE, FALSE, -50), MkItem("Q", FALSE, TRUE, -50)>>

ParamDocs == {DocA, DocB, DocPlain, DocTie}

\* the query strings tried
ParamQueries ==
    {[NoQuery EXCEPT !["filter"] = f, !["filterout"] = fo,
                     !["filter_title"] = ft, !["filter_description"] = fd,
                     !["filter_time"] = tm, !["sorted"] = so, !["limit"] = li] :
        f \in {"", "(?i)bug", "[invalid("}, fo \in {"", "(?i)bug", "[invalid("},
        ft \in {"", "(?i)bug", "[invalid("},
        fd \in {"", "(?i)bug", "[invalid("},
        tm \in {"", "3600", "soon"}, so \in {"", "asc", "desc"},
        li \in {"", "0", "1", "2", "-1", "many"}}

\* request 1 has its feed_data from the Handler and is about to run the code
\* of Parameter that follows c.Next(), the last handler code left to run
InitParam ==
    /\ items = NoItems
    /\ now = 0
    /\ lastOp = NoOp
    /\ accessKey = AccessKey
    /\ \E q \in ParamQueries :
          req = [r \in Reqs |->
                    IF r = 1
                    THEN [method |-> "GET", path |-> "/ns/route", q |-> q,
                          inm |-> ""]
                    ELSE NoRequest]
    /\ \E doc \in ParamDocs :
          /\ feedData = [r \in Reqs |->
                            IF r = 1 THEN [exists |-> TRUE, items |-> doc]
                            ELSE NoData]
          /\ handled = [r \in Reqs |->
                           IF r = 1 THEN <<[err |-> "", items |-> doc]>>
                           ELSE <<>>]
    /\ pc = [r \in Reqs |-> IF r = 1 THEN "Parameter.post" ELSE "start"]
    /\ index = [r \in Reqs |-> IF r = 1 THEN Len(Chain) ELSE 0 - 1]
    /\ stack = [r \in Reqs |-> <<>>]
    /\ resp = [r \in Reqs |-> NewWriter]
    /\ capture = [r \in Reqs |-> NoCapture]
    /\ doResult = [r \in Reqs |-> ""]
    /\ joined = [r \in Reqs |-> 0]
    /\ sfCalls = [k \in {} |-> 0]
    /\ sfVal = [r \in Reqs |-> NoVal]
    /\ pendingSet = [r \in Reqs |-> NoSet]
    /\ trace = [r \in Reqs |-> <<>>]
    /\ setLog = {}
    /\ lookup = [r \in Reqs |-> NoLookup]
    /\ storedAt = [k \in {} |-> 0]
    /\ abortedBy = [r \in Reqs |-> ""]
    /\ cancelled = [r \in Reqs |-> ""]
    /\ arrived = [r \in Reqs |-> {}]
    /\ tg = NoTryGet
    /\ rd = NoRender
    /\ cl = NoClient
    /\ rc = NoRedis

NextParam == \E r \in Reqs : ParameterPost(r)

SpecParam == InitParam /\ [][NextParam]_vars

-----------------------------------------------------------------------------
(* cache.TryGet over the in-memory cache                                   *)

\* results a getter may return (T instantiated with `any`): two ordinary
\* values and one that json.Marshal rejects, such as math.NaN()
Unencodable == "NaN"
GetterValues == {"computed", Unencodable}

\* what a getter call returns: (value, nil) or (zero value, error)
GetterOutcomes ==
    {[value |-> v, err |-> ""] : v \in GetterValues}
        \cup {[value |-> "", err |-> "getter failed"]}

\* json.Marshal(result): the JSON text of the value, or an error
Marshal(v) ==
    IF v = Unencodable
    THEN [ok |-> FALSE, data |-> ""]
    ELSE [ok |-> TRUE, data |-> "\"" \o v \o "\""]

\* a decoder that takes the payload as it is
Unmarshal_Raw(data) == [ok |-> TRUE, value |-> data]

\* json.Unmarshal([]byte(cached), &result): the value a JSON text stands
\* for, or an error when the payload is no JSON text
Unmarshal(data) ==
    LET src == {v \in GetterValues : Marshal(v).ok /\ Marshal(v).data = data}
    IN  IF src = {}
        THEN [ok |-> FALSE, value |-> ""]
        ELSE [ok |-> TRUE, value |-> CHOOSE v \in src : TRUE]

\* keys and TTLs of the TryGet calls, and the payloads other callers store
\* and the key they store them under
TryKeys == {"a", "b"}
TryTTLs == {1}
OtherValues == {"v1", ""}
OtherKey == "a"

\* lines 21-26: look the key up; a decodable, non-empty payload is returned
TryGetCall(key, ttl) ==
    /\ tg.pc \in {"idle", "done"}
    /\ LET got == MemoryGet(items, key, now)
           dec == Unmarshal(got.value)
           usable == got.err = "" /\ got.value # "" /\ dec.ok
           call == [tg EXCEPT !.key = key, !.ttl = ttl, !.at = now, !.got = got,
                              !.seen = IF key \in DOMAIN items THEN items[key]
                                       ELSE NoPrev.item,
                              !.prevAtCall = tg.prev,
                              !.calls = 0, !.gval = "", !.gerr = "",
                              !.result = "", !.err = "", !.stored = FALSE]
       IN  tg' = IF usable
                 THEN [call EXCEPT !.pc = "done", !.result = dec.value]
                 ELSE [call EXCEPT !.pc = "getter"]
    /\ UNCHANGED <<items, now, lastOp, req, pc, index, stack, resp, feedData,
                   capture, doResult, joined, sfCalls, sfVal, pendingSet, trace,
                   handled, setLog, lookup, storedAt, abortedBy, accessKey,
                   cancelled, arrived, rd, cl, rc>>

\* lines 29-32: run the getter; its error ends the call
TryGetGetter ==
    /\ tg.pc = "getter"
    /\ \E out \in GetterOutcomes :
          tg' = [tg EXCEPT !.calls = @ + 1, !.gval = out.value, !.gerr = out.err,
                           !.result = out.value, !.err = out.err,
                           !.pc = IF out.err # "" THEN "done" ELSE "store"]
    /\ UNCHANGED <<items, now, lastOp, req, pc, index, stack, resp, feedData,
                   capture, doResult, joined, sfCalls, sfVal, pendingSet, trace,
                   handled, setLog, lookup, storedAt, abortedBy, accessKey,
                   cancelled, arrived, rd, cl, rc>>

\* lines 35-40: encode the result and, when that works, store it; return it
TryGetStore ==
    /\ tg.pc = "store"
    /\ LET enc == Marshal(tg.result)
       IN  IF enc.ok
           THEN \E order \in RangeOrders(items) :
                  /\ items' = MemorySet(items, tg.key, enc.data, tg.ttl, now, order)
                  /\ tg' = [tg EXCEPT !.pc = "done", !.stored = TRUE,
                                      !.prev = [key |-> tg.key,
                                                item |-> items'[tg.key],
                                                result |-> tg.result]]
           ELSE /\ UNCHANGED items
                /\ tg' = [tg EXCEPT !.pc = "done"]
    /\ UNCHANGED <<now, lastOp, req, pc, index, stack, resp, feedData,
                   capture, doResult, joined, sfCalls, sfVal, pendingSet, trace,
                   handled, setLog, lookup, storedAt, abortedBy, accessKey,
                   cancelled, arrived, rd, cl, rc>>

\* TryGet calls one after the other, next to other users of the cache
NextTry ==
    \/ \E k \in TryKeys, ttl \in TryTTLs : TryGetCall(k, ttl)
    \/ TryGetGetter
    \/ TryGetStore
    \/ \E v \in OtherValues : Set(OtherKey, v, 1)
    \/ Delete(OtherKey)
    \/ TickMem

SpecTry == InitMem /\ [][NextTry]_vars

-----------------------------------------------------------------------------
(* The renderers on their own: feed.GenerateRSS, feed.GenerateAtom and      *)
(* feed.GenerateJSON applied to a document and a URL, at clock times that   *)
(* move on between the calls. A time.Time is a number of seconds, 0 being   *)
(* the zero time. The output is the structure handed to xml.MarshalIndent   *)
(* or json.MarshalIndent, which encode it field by field.                   *)

MaxRenderNow == 3
MaxRenders == 2

\* time.Time.IsZero
IsZero(t) == t = 0

\* t.UTC().Format(time.RFC1123Z) and t.UTC().Format(time.RFC3339)
formatRFC822(t) == "RFC1123Z(" \o ToString(t) \o ")"
formatRFC3339(t) == "RFC3339(" \o ToString(t) \o ")"

\* feed.Item values: with or without GUID, link and timestamps
RenderItems ==
    {[guid |-> g, link |-> l, pubDate |-> p, updated |-> u] :
        g \in {"", "item1"}, l \in {"", "https://x/1"}, p \in {0, 5}, u \in {0, 6}}

\* feed.Data values of up to two entries
RenderDocs ==
    {[pubDate |-> p, lastBuildDate |-> b, item |-> its] :
        p \in {0, 5}, b \in {0, 7},
        its \in {<<>>} \cup {<<a>> : a \in RenderItems}
                \cup {<<a, b2>> : a \in RenderItems, b2 \in RenderItems}}

RenderURL == "http://grss.local/ns/route"
Formats == {"rss", "atom", "json"}

GenerateRSS(data, url) ==
    [format |-> "rss",
     self |-> url,
     pubDate |-> IF ~IsZero(data.pubDate) THEN formatRFC822(data.pubDate) ELSE "",
     lastBuildDate |->
        IF ~IsZero(data.lastBuildDate) THEN formatRFC822(data.lastBuildDate)
        ELSE IF ~IsZero(data.pubDate) THEN formatRFC822(data.pubDate) ELSE "",
     entries |-> [i \in 1..Len(data.item) |->
        [link |-> data.item[i].link,
         guid |-> IF data.item[i].guid = "" THEN data.item[i].link
                  ELSE data.item[i].guid,
         pubDate |-> IF ~IsZero(data.item[i].pubDate)
                     THEN formatRFC822(data.item[i].pubDate) ELSE ""]]]

\* t is what time.Now() returns during the call
GenerateAtom(data, url, t) ==
    [format |-> "atom",
     self |-> url,
     updated |-> IF ~IsZero(data.pubDate) THEN formatRFC3339(data.pubDate)
                 ELSE formatRFC3339(t),
     entries |-> [i \in 1..Len(data.item) |->
        [link |-> data.item[i].link,
         id |-> IF data.item[i].guid = "" THEN data.item[i].link
                ELSE data.item[i].guid,
         updated |-> IF ~IsZero(data.item[i].updated)
                     THEN formatRFC3339(data.item[i].updated)
                     ELSE IF ~IsZero(data.item[i].pubDate)
                          THEN formatRFC3339(data.item[i].pubDate)
                          ELSE formatRFC3339(t)]]]

GenerateJSON(data, url) ==
    [format |-> "json",
     feed_url |-> url,
     entries |-> [i \in 1..Len(data.item) |->
        [url |-> data.item[i].link,
         id |-> IF data.item[i].guid = "" THEN data.item[i].link
                ELSE data.item[i].guid,
         date_published |-> IF ~IsZero(data.item[i].pubDate)
                            THEN formatRFC3339(data.item[i].pubDate) ELSE "",
         date_modified |-> IF ~IsZero(data.item[i].updated)
                           THEN formatRFC3339(data.item[i].updated) ELSE ""]]]

\* the switch of Template on the format
Generate(format, data, url, t) ==
    IF format = "atom" THEN GenerateAtom(data, url, t)
    ELSE IF format = "json" THEN GenerateJSON(data, url)
    ELSE GenerateRSS(data, url)

InitRender ==
    /\ items = NoItems
    /\ now = 1
    /\ lastOp = NoOp
    /\ accessKey = AccessKey
    /\ CoreIdle
    /\ cl = NoClient
    /\ rc = NoRedis
    /\ \E doc \in RenderDocs : rd = [data |-> doc, url |-> RenderURL, outs |-> <<>>]

\* one more render of the document
Render(format) ==
    /\ Len(rd.outs) < MaxRenders
    /\ rd' = [rd EXCEPT !.outs = Append(@,
                 [format |-> format, at |-> now,
                  out |-> Generate(format, rd.data, rd.url, now)])]
    /\ UNCHANGED <<coreVars, now, cl, rc>>

TickRender ==
    /\ now < MaxRenderNow
    /\ now' = now + 1
    /\ UNCHANGED <<coreVars, auxVars>>

NextRender ==
    \/ \E f \in Formats : Render(f)
    \/ TickRender

SpecRender == InitRender /\ [][NextRender]_vars

-----------------------------------------------------------------------------
(* client.Client: Get and Post through doWithRetry, one loop iteration per  *)
(* step, against a server that answers each attempt as it pleases           *)

MaxRequestRetry == 2

\* the status codes servers answer with
ClientStatuses == {200, 204, 304, 400, 403, 404, 408, 409, 425, 429, 499, 500, 503}

\* what c.httpClient.Do returns: a transport error or a response, whose body
\* io.ReadAll may fail to read
ClientOutcomes ==
    {[kind |-> "error", status |-> 0, body |-> "", readable |-> FALSE]}
    \cup {[kind |-> "resp", status |-> st, body |-> "payload", readable |-> TRUE] :
            st \in ClientStatuses}
    \cup {[kind |-> "resp", status |-> st, body |-> "payload", readable |-> FALSE] :
            st \in {200, 204}}

\* shouldRetry without the listed 4xx codes
shouldRetry_ServerErrorsOnly(statusCode) == statusCode >= 500

shouldRetry(statusCode) ==
    statusCode >= 500 \/ statusCode \in {400, 408, 409, 425, 429}

\* config.RequestRetry as loaded
InitClient ==
    /\ items = NoItems
    /\ now = 0
    /\ lastOp = NoOp
    /\ accessKey = AccessKey
    /\ CoreIdle
    /\ rd = NoRender
    /\ rc = NoRedis
    /\ \E n \in 0..MaxRequestRetry : cl = [NoClient EXCEPT !.maxRetries = n]

\* Get and Post: http.NewRequest, headers, then doWithRetry
ClientRequest(method, urlOK) ==
    /\ cl.pc \in {"idle", "done"}
    /\ cl' = IF urlOK
             THEN [NoClient EXCEPT !.pc = "loop", !.method = method,
                                   !.maxRetries = cl.maxRetries]
             ELSE [NoClient EXCEPT !.pc = "done", !.method = method,
                                   !.maxRetries = cl.maxRetries,
                                   !.err = "invalid url"]
    /\ UNCHANGED <<coreVars, now, rd, rc>>

\* `continue`: the next attempt, or the return after the loop
Continue(c, lastErr) ==
    IF c.attempt + 1 <= c.maxRetries
    THEN [c EXCEPT !.attempt = @ + 1, !.lastErr = lastErr]
    ELSE [c EXCEPT !.attempt = @ + 1, !.lastErr = lastErr, !.pc = "done",
                   !.err = "request failed after " \o ToString(c.maxRetries)
                           \o " retries: " \o lastErr]

\* one iteration of the loop of doWithRetry
doWithRetry ==
    /\ cl.pc = "loop"
    /\ cl.attempt <= cl.maxRetries
    /\ \E o \in ClientOutcomes :
          LET c == [cl EXCEPT !.seen = Append(@, o)]
              http == "HTTP " \o ToString(o.status)
          IN  cl' = IF o.kind = "error" THEN Continue(c, "transport error")
                    ELSE IF o.status >= 200 /\ o.status < 300
                    THEN IF o.readable
                         THEN [c EXCEPT !.pc = "done", !.body = o.body]
                         ELSE [c EXCEPT !.pc = "done", !.err = "read error"]
                    ELSE IF shouldRetry(o.status) THEN Continue(c, http)
                    ELSE [c EXCEPT !.pc = "done", !.err = http]
    /\ UNCHANGED <<coreVars, now, rd, rc>>

NextClient ==
    \/ \E m \in {"GET", "POST"}, ok \in BOOLEAN : ClientRequest(m, ok)
    \/ doWithRetry

SpecClient == InitClient /\ [][NextClient]_vars

-----------------------------------------------------------------------------
(* cache.RedisCache on one key: every method sends its commands one by one, *)
(* two callers at a time, any command may fail, the clock moves on between  *)
(* commands; the server drops the tracking key when it expires              *)

MaxRedisNow == 3
RedisProcs == {1, 2}
RedisValues == {"v1", "v2"}
RedisTTLs == {1, 2}

\* the reply to TTL: seconds left, -2 for a key that is not there
TTLReply(exp, t) == IF exp = 0 \/ exp <= t THEN 0 - 2 ELSE exp - t

\* the test Get makes on the TTL reply, taking any reply for a live key
TrackingLive_AnyReply(ok, ttl) == ok

\* the test Get makes on the TTL reply: err == nil and ttl > 0
TrackingLive(ok, ttl) == ok /\ ttl > 0

\* the effect of EXPIRE on the tracking key
ExpireAt(exp, d, t) == IF exp = 0 THEN 0 ELSE IF d <= 0 THEN 0 ELSE t + d

\* another caller's write lands: calls begun before it are disturbed, and no
\* earlier Set is the last writer any more
Written(calls, p) ==
    [q \in RedisProcs |->
        IF q = p \/ calls[q].pc = "idle" THEN calls[q]
        ELSE [calls[q] EXCEPT !.disturbed = TRUE, !.clean = FALSE]]

InitRedis ==
    /\ items = NoItems
    /\ now = 0
    /\ lastOp = NoOp
    /\ accessKey = AccessKey
    /\ CoreIdle
    /\ rd = NoRender
    /\ cl = NoClient
    /\ rc = NoRedis

Idle(p) == rc.call[p].pc \in {"idle", "done"}

\* Get, lines 41-45: TTL of the tracking key
RedisGet(p) ==
    /\ Idle(p)
    /\ \E ok \in BOOLEAN :
          LET ttl == TTLReply(rc.exp, now)
              c == [NoCall EXCEPT !.op = "get",
                                  !.missing = (rc.exp <= now \/ rc.data = "")]
          IN  rc' = [rc EXCEPT !.call[p] =
                        IF TrackingLive(ok, ttl)
                        THEN [c EXCEPT !.pc = "expire", !.ttl = ttl]
                        ELSE [c EXCEPT !.pc = "done",
                                       !.err = "cache miss or expired"]]
    /\ UNCHANGED <<coreVars, now, rd, cl>>

\* Get, line 48: EXPIRE with the TTL read, its outcome ignored
RedisGetExpire(p) ==
    /\ rc.call[p].pc = "expire"
    /\ \E ok \in BOOLEAN :
          rc' = [rc EXCEPT
                    !.exp = IF ok THEN ExpireAt(@, rc.call[p].ttl, now) ELSE @,
                    !.stale = @ \/ (ok /\ rc.exp # 0 /\ rc.call[p].disturbed),
                    !.call[p].pc = "value"]
    /\ UNCHANGED <<coreVars, now, rd, cl>>

\* Get, lines 51-56: GET of the primary key
RedisGetValue(p) ==
    /\ rc.call[p].pc = "value"
    /\ \E ok \in BOOLEAN :
          rc' = [rc EXCEPT !.call[p] =
                    IF ~ok THEN [@ EXCEPT !.pc = "done", !.ttl = 0,
                                          !.err = "connection error"]
                    ELSE IF rc.data = ""
                    THEN [@ EXCEPT !.pc = "done", !.ttl = 0, !.err = "redis: nil"]
                    ELSE [@ EXCEPT !.pc = "done", !.ttl = 0, !.value = rc.data]]
    /\ UNCHANGED <<coreVars, now, rd, cl>>

\* Set, lines 62-64: SET of the primary key, without expiration
RedisSet(p, value, ttl) ==
    /\ Idle(p)
    /\ \E ok \in BOOLEAN :
          rc' = IF ok
                THEN [rc EXCEPT !.data = value,
                                !.call = [Written(rc.call, p) EXCEPT ![p] =
                                    [NoCall EXCEPT !.op = "set", !.pc = "ttl",
                                                   !.value = value, !.ttl = ttl]]]
                ELSE [rc EXCEPT !.call[p] =
                         [NoCall EXCEPT !.op = "set", !.pc = "done",
                                        !.err = "set failed"]]
    /\ UNCHANGED <<coreVars, now, rd, cl>>

\* Set, lines 67-72: SET of the tracking key with the TTL
RedisSetTTL(p) ==
    /\ rc.call[p].pc = "ttl"
    /\ \E ok \in BOOLEAN :
          rc' = IF ok
                THEN [rc EXCEPT !.exp = now + rc.call[p].ttl,
                                !.est = now + rc.call[p].ttl,
                                !.stale = FALSE,
                                !.call = [Written(rc.call, p) EXCEPT ![p] =
                                    [NoCall EXCEPT !.op = "set", !.pc = "done",
                                                   !.clean = TRUE]]]
                ELSE [rc EXCEPT !.call[p] =
                         [NoCall EXCEPT !.op = "set", !.pc = "done",
                                        !.err = "tracking key not set"]]
    /\ UNCHANGED <<coreVars, now, rd, cl>>

\* Delete, lines 79-80: the pipeline's DEL of the primary key
RedisDelete(p) ==
    /\ Idle(p)
    /\ \E ok \in BOOLEAN :
          rc' = IF ok
                THEN [rc EXCEPT !.data = "",
                                !.call = [Written(rc.call, p) EXCEPT ![p] =
                                    [NoCall EXCEPT !.op = "delete", !.pc = "delttl"]]]
                ELSE [rc EXCEPT !.call[p] =
                         [NoCall EXCEPT !.op = "delete", !.pc = "done",
                                        !.err = "delete failed"]]
    /\ UNCHANGED <<coreVars, now, rd, cl>>

\* Delete, lines 81-83: the pipeline's DEL of the tracking key
RedisDeleteTTL(p) ==
    /\ rc.call[p].pc = "delttl"
    /\ \E ok \in BOOLEAN :
          rc' = IF ok
                THEN [rc EXCEPT !.exp = 0,
                                !.call = [Written(rc.call, p) EXCEPT ![p] =
                                    [NoCall EXCEPT !.op = "delete", !.pc = "done"]]]
                ELSE [rc EXCEPT !.call[p] =
                         [NoCall EXCEPT !.op = "delete", !.pc = "done",
                                        !.err = "tracking key not deleted"]]
    /\ UNCHANGED <<coreVars, now, rd, cl>>

\* a second passes; the server drops a tracking key whose time is up
TickRedis ==
    /\ now < MaxRedisNow
    /\ now' = now + 1
    /\ rc' = [rc EXCEPT !.exp = IF @ <= now + 1 THEN 0 ELSE @]
    /\ UNCHANGED <<coreVars, rd, cl>>

NextRedis ==
    \/ \E p \in RedisProcs :
          \/ RedisGet(p)
          \/ RedisGetExpire(p)
          \/ RedisGetValue(p)
          \/ \E v \in RedisValues, ttl \in RedisTTLs : RedisSet(p, v, ttl)
          \/ RedisSetTTL(p)
          \/ RedisDelete(p)
          \/ RedisDeleteTTL(p)
    \/ TickRedis

SpecRedis == InitRedis /\ [][NextRedis]_vars

-----------------------------------------------------------------------------
(* Properties of the stand-alone cache                                     *)

\* C5: the number of resident entries never exceeds maxItems
C5_ResidentNeverExceedsMax == Cardinality(DOMAIN items) <= maxItems

\* the last call was a Set that found the map full
SetOnFull == lastOp.op = "set" /\ Cardinality(DOMAIN lastOp.before) >= maxItems

\* C6: a Set on a full map evicts exactly one entry, and that entry has the
\* earliest expiration among the entries resident when the Set began
C6_EvictsEarliestExpiration ==
    SetOnFull =>
        /\ Cardinality(lastOp.evicted) = 1
        /\ \A victim \in lastOp.evicted : \A k \in DOMAIN lastOp.before :
               lastOp.before[victim].expiration <= lastOp.before[k].expiration

\* the last call was a Get on a resident entry whose expiration had passed
GetOnExpired ==
    /\ lastOp.op = "get"
    /\ lastOp.key \in DOMAIN lastOp.before
    /\ lastOp.at > lastOp.before[lastOp.key].expiration

\* C7: Get on an entry whose expiration instant has passed reports a miss,
\* swept or not
C7_ExpiredGetMisses == GetOnExpired => (lastOp.err # "" /\ lastOp.value = "")

\* an expired entry, still resident (never swept), was asked for
C7_Witness == GetOnExpired /\ lastOp.key \in DOMAIN items /\ lastOp.err # ""

-----------------------------------------------------------------------------
(* Properties of the request pipeline                                      *)

Done(r) == pc[r] = "done"

\* r passed a cache miss and led / followed a singleflight call
Led(r) == joined[r] = r
Followed(r) == joined[r] # 0 /\ joined[r] # r

\* the members of the coalescing group that l leads
Group(l) == {r \in Reqs : joined[r] = l}

HandlerFailed(r) == Len(handled[r]) > 0 /\ handled[r][1].err # ""
HandlerSucceeded(r) == Len(handled[r]) > 0 /\ handled[r][1].err = ""

Events(r) == {trace[r][i] : i \in 1..Len(trace[r])}

\* C1: requests with one fingerprint that miss together form one group: the
\* Handler runs once for the whole group, and (its run succeeding) every
\* member gets 200 with the same body
C1_OneHandlerRunPerGroup ==
    \A l \in Reqs :
        (/\ Led(l)
         /\ Group(l) # {l}
         /\ \A r \in Group(l) : Done(r)
         /\ HandlerSucceeded(l))
        => /\ Cardinality({r \in Group(l) : Len(handled[r]) > 0}) = 1
           /\ \A r \in Group(l) :
                 resp[r].status = 200 /\ resp[r].body = resp[l].body

\* C2: while a singleflight call for a key is outstanding no second execution
\* of the function starts for that key, and every caller of the call gets the
\* value that one execution produced (the bytes the leader's writer captured)
C2_ComputeOncePerCall ==
    /\ \A a, b \in Reqs :
          (a # b /\ Led(a) /\ Led(b) /\ ~sfVal[a].done /\ ~sfVal[b].done)
          => CacheKey(req[a]) # CacheKey(req[b])
    /\ \A r \in Reqs :
          (joined[r] # 0 /\ pc[r] \in {"Cache.post", "done"})
          => /\ sfVal[joined[r]].done
             /\ doResult[r] = sfVal[joined[r]].val
             /\ doResult[r] = capture[joined[r]].body

\* a follower got the leader's non-empty result from sf.Do
C2_Witness ==
    \E f \in Reqs :
        /\ Followed(f)
        /\ Done(f)
        /\ CacheKey(req[f]) = CacheKey(req[joined[f]])
        /\ doResult[f] = capture[joined[f]].body
        /\ doResult[f] # ""

\* C3: when the leader's computation fails, every waiter's response is the
\* leader's failure and no waiter runs the Handler
C3_WaitersObserveLeaderFailure ==
    \A l \in Reqs : \A f \in Group(l) \ {l} :
        (Done(l) /\ Done(f) /\ HandlerFailed(l))
        => /\ resp[f].status = resp[l].status
           /\ resp[f].body = resp[l].body
           /\ Len(handled[f]) = 0

\* C4: a Handler error gives a 500 with the JSON error body and nothing
\* rendered, no cache write is spawned for a response that is not a 200, and
\* the cache holds only payloads of spawned writes
C4_HandlerErrorNotCached ==
    /\ \A r \in Reqs :
          HandlerFailed(r)
          => /\ resp[r].status = 500
             /\ resp[r].body = ErrorJSON(handled[r][1].err)
             /\ ~feedData[r].exists
             /\ pendingSet[r] = NoSet
    /\ \A e \in setLog : e.status = 200 /\ HandlerSucceeded(e.by)
    /\ \A r \in Reqs :
          pendingSet[r] # NoSet
          => \E e \in setLog : e.key = pendingSet[r].key
                               /\ e.value = pendingSet[r].value
    /\ \A k \in DOMAIN items :
          \E e \in setLog : e.key = k /\ e.value = items[k].value

\* a leader whose Handler failed finished with the 500 and no cache write
C4_Witness ==
    \E r \in Reqs :
        /\ Led(r)
        /\ Done(r)
        /\ HandlerFailed(r)
        /\ resp[r].status = 500
        /\ capture[r].body = ErrorJSON(handled[r][1].err)
        /\ \A e \in setLog : e.by # r

\* C8: a lookup made RouteExpire + 1 seconds (or more) after the resident
\* entry was stored is a miss, and the request runs the Handler again
C8_ExpiredEntryRecomputed ==
    \A r \in Reqs :
        (lookup[r].done /\ lookup[r].resident
         /\ lookup[r].at >= lookup[r].storedAt + RouteExpire + 1)
        => /\ ~lookup[r].hit
           /\ joined[r] # 0 \/ pc[r] = "Cache.do"
           /\ Done(r) => Len(handled[r]) = 1

\* an entry stored at T was looked up at T + 301, and the request recomputed
C8_Witness ==
    \E r \in Reqs :
        /\ lookup[r].done /\ lookup[r].resident
        /\ lookup[r].at = lookup[r].storedAt + RouteExpire + 1
        /\ Done(r)
        /\ Len(handled[r]) = 1

\* the events of a request no stage aborts
FullTrace ==
    <<"Logger", "AccessControl", "Header", "Parameter", "Cache", "Template",
      "Handler", "Template.post", "Cache.post", "Parameter.post", "Header.post",
      "AccessControl.post", "Logger.post">>

Stages == <<"Logger", "AccessControl", "Header", "Parameter", "Cache", "Template">>

StagePos(name) == CHOOSE i \in 1..Len(Stages) : Stages[i] = name

\* the events of a request whose stage number n aborts before its continuation:
\* stages 1..n enter, stages n-1..1 finish
AbortTrace(n) ==
    [i \in 1..(2 * n - 1) |->
        IF i <= n THEN Stages[i] ELSE Stages[2 * n - i] \o ".post"]

ExpectedTrace(r) ==
    IF abortedBy[r] \in {"", "Handler"}
    THEN FullTrace
    ELSE AbortTrace(StagePos(abortedBy[r]))

\* C9: every request runs the stages in the fixed order, each once, the
\* post-continuation parts in reverse order, and nothing after an abort
C9_FixedTotalOrder == \A r \in Reqs : Done(r) => trace[r] = ExpectedTrace(r)

\* what Template renders for r from the Handler's own, untransformed entries
Untransformed(r) ==
    GenerateFeed(DefaultQuery(req[r], "format", "rss"), handled[r][1].items,
                 currentURL(req[r]))

C11_HitServesStoredAndAborts ==
    \A r \in Reqs :
        lookup[r].hit
        => /\ lookup[r].resident /\ lookup[r].value # ""
           /\ resp[r].status = 200
           /\ resp[r].body = lookup[r].value
           /\ resp[r].sent.cacheStatus = "HIT"
           /\ abortedBy[r] = "Cache"
           /\ Events(r) \cap {"Template", "Template.post", "Handler",
                               "Cache.post"} = {}
           /\ handled[r] = <<>>
           /\ joined[r] = 0
           /\ pendingSet[r] = NoSet
           /\ \A e \in setLog : e.by # r

\* a request that hit the cache ran to its end
C11_Witness ==
    \E r \in Reqs :
        /\ lookup[r].hit
        /\ Done(r)
        /\ resp[r].body = lookup[r].value
        /\ trace[r] = AbortTrace(StagePos("Cache"))

\* every leader that answered 200 with a body spawned a cache write of exactly
\* those bytes under its fingerprint with the route expiry as TTL; what is
\* resident came from such a write and expires that long after it was
\* stored; a lookup that finds the entry within the TTL is a hit returning it
C12_StoredAsWritten ==
    /\ \A r \in Reqs :
          (Led(r) /\ sfVal[r].done /\ resp[r].status = 200
             /\ resp[r].body # "")
          => \E e \in setLog : /\ e.by = r
                               /\ e.key = CacheKey(req[r])
                               /\ e.value = resp[r].body
                               /\ e.ttl = RouteExpire
    /\ \A r \in Reqs :
          pendingSet[r] # NoSet
          => pendingSet[r] = [key |-> CacheKey(req[r]), value |-> resp[r].body,
                              ttl |-> RouteExpire]
    /\ \A k \in DOMAIN items :
          /\ \E e \in setLog : e.key = k /\ e.value = items[k].value
          /\ items[k].expiration = storedAt[k] + RouteExpire
    /\ \A r \in Reqs :
          (lookup[r].done /\ lookup[r].resident
             /\ lookup[r].at <= lookup[r].storedAt + RouteExpire)
          => /\ lookup[r].hit
             /\ resp[r].body = lookup[r].value
             /\ \E e \in setLog : /\ e.key = CacheKey(req[r])
                                  /\ e.value = lookup[r].value

\* C12: after a miss whose leader answers 200 with a body, the detached Set
\* of exactly those bytes with TTL RouteExpire is spawned and eventually runs,
\* and a later request for the fingerprint within the TTL (entry not evicted)
\* is a hit returning those bytes
C12_SetEventuallyStores ==
    /\ []C12_StoredAsWritten
    /\ \A r \in Reqs : (pendingSet[r] # NoSet) ~> (pendingSet[r] = NoSet)

\* a leader's bytes were stored and a later request got them as a hit
C12_Witness ==
    \E l, r \in Reqs :
        /\ l # r
        /\ Led(l) /\ Done(l) /\ pendingSet[l] = NoSet
        /\ lookup[r].hit /\ Done(r)
        /\ lookup[r].at <= lookup[r].storedAt + RouteExpire
        /\ resp[r].body = resp[l].body
        /\ CacheKey(req[r]) = CacheKey(req[l])

\* r's Handler ran once and r's response is what that run gives: the full
\* render with 200, or the 500 with the error message
NormalResponse(r) ==
    /\ Len(handled[r]) = 1
    /\ HandlerSucceeded(r) => (resp[r].status = 200
                                /\ resp[r].body = Untransformed(r))
    /\ HandlerFailed(r) => (resp[r].status = 500
                             /\ resp[r].body = ErrorJSON(handled[r][1].err))

\* some handler of the chain can run for r
ChainStepEnabled(r) ==
    \/ ENABLED Logger(r) \/ ENABLED LoggerPost(r)
    \/ ENABLED AccessControl(r) \/ ENABLED AccessControlPost(r)
    \/ ENABLED Header(r) \/ ENABLED HeaderPost(r)
    \/ ENABLED Parameter(r) \/ ENABLED ParameterPost(r)
    \/ ENABLED Cache(r) \/ ENABLED CacheDo(r) \/ ENABLED CacheFn(r)
    \/ ENABLED CacheWait(r) \/ ENABLED CachePost(r)
    \/ ENABLED Template(r) \/ ENABLED TemplatePost(r)
    \/ ENABLED wrapHandler(r)

\* a request whose lookup failed goes the way of a miss and ends with the
\* normal response; a request whose cache write is still pending is never
\* held up by it
C13_FailedGetIsMiss ==
    /\ \A r \in Reqs :
          lookup[r].failed
          => /\ ~lookup[r].hit
             /\ joined[r] # 0 \/ pc[r] = "Cache.do"
             /\ Done(r) => NormalResponse(r)
    /\ \A r \in Reqs :
          (pendingSet[r] # NoSet /\ ~Done(r)) => ChainStepEnabled(r)

\* C13: a failing store never changes a response: a failed Get is processed
\* as a miss, the end of the detached Set (done or failed) changes no status,
\* body or position of any request, and a finished response stays as it is
C13_StoreFailureChangesNoResponse ==
    /\ []C13_FailedGetIsMiss
    /\ [][\A r \in Reqs :
            /\ (pendingSet[r] # NoSet /\ pendingSet'[r] = NoSet)
               => (resp' = resp /\ pc' = pc)
            /\ Done(r) => (resp'[r] = resp[r] /\ Done(r)')]_vars

\* a leader whose lookup failed although the entry was resident answered 200
\* from its own Handler run and finished while its cache write was pending
C13_Witness ==
    \E r \in Reqs :
        /\ lookup[r].failed /\ lookup[r].resident
        /\ Led(r) /\ Done(r)
        /\ HandlerSucceeded(r) /\ resp[r].status = 200
        /\ pendingSet[r] # NoSet

\* some member of the group that l leads lost its client
GroupDisconnected(l) == \E r \in Group(l) : cancelled[r] # ""

\* C17: a client going away does not cancel the computation a group shares:
\* the leader stays runnable until its call is finished, its Handler returns
\* what the upstream gave (never a cancellation), on success the full render
\* is captured and the cache write spawned, and every member that has left
\* sf.Do holds the leader's result
C17_DisconnectDoesNotCancel ==
    \A l \in Reqs :
        (Led(l) /\ GroupDisconnected(l))
        => /\ ~sfVal[l].done => ChainStepEnabled(l)
           /\ \A i \in 1..Len(handled[l]) : handled[l][i] \in HandlerOutcomes
           /\ sfVal[l].done
              => /\ Len(handled[l]) = 1
                 /\ sfVal[l].val = capture[l].body
                 /\ HandlerSucceeded(l)
                    => /\ capture[l].body = Untransformed(l)
                       /\ \E e \in setLog : e.by = l /\ e.value = sfVal[l].val
                 /\ \A f \in Group(l) :
                       pc[f] \in {"Cache.post", "done"}
                       => doResult[f] = sfVal[l].val

\* a leader lost its client before its Handler ran, while another request
\* waited on its call; the Handler succeeded and the waiter got the render
C17_Witness ==
    \E l \in Reqs : \E f \in Group(l) \ {l} :
        /\ cancelled[l] = "early"
        /\ HandlerSucceeded(l)
        /\ sfVal[l].done
        /\ pc[f] = "Cache.post"
        /\ doResult[f] = Untransformed(l)

\* r has been through the AccessControl handler
Screened(r) == "AccessControl" \in Events(r)

\* a key is configured, the path is not bypassed, and neither the key nor the
\* code parameter of r fits
Denied(r) ==
    /\ accessKey # ""
    /\ req[r].path \notin {"/", "/robots.txt", "/favicon.ico", "/healthz"}
    /\ req[r].q["key"] # accessKey
    /\ req[r].q["code"] # CodeFor(req[r].path, accessKey)

\* C14: a request AccessControl denies gets 403 and no later stage runs for
\* it (no lookup, no coalescing, no Template, no Handler, no cache write);
\* every other request enters the continuation
C14_DeniedStopsAllowedProceeds ==
    \A r \in Reqs :
        Screened(r)
        => IF Denied(r)
           THEN /\ resp[r].status = 403
                /\ resp[r].body = ErrorJSON("Access denied")
                /\ abortedBy[r] = "AccessControl"
                /\ Events(r) \subseteq {"Logger", "AccessControl", "Logger.post"}
                /\ ~lookup[r].done
                /\ joined[r] = 0
                /\ handled[r] = <<>>
                /\ pendingSet[r] = NoSet
                /\ \A e \in setLog : e.by # r
           ELSE /\ pc[r] = "Header" \/ "Header" \in Events(r)
                /\ resp[r].status # 403
                /\ abortedBy[r] # "AccessControl"

\* with a key configured: one request was refused with 403 and is done, and
\* one without key or code went through on a bypassed path
C14_Witness ==
    \E d, a \in Reqs :
        /\ accessKey # ""
        /\ Denied(d) /\ Done(d) /\ resp[d].status = 403
        /\ req[a].path = "/healthz" /\ Done(a) /\ resp[a].status = 200
        /\ "Handler" \in Events(a)

\* C15: when the continuation returned 200 with a body, Header has set the
\* ETag to the content hash of that body and Cache-Control to public,
\* max-age=RouteExpire, and a request whose If-None-Match equals that ETag is
\* answered 304
C15_ETagAndCacheControl ==
    \A r \in Reqs :
        ("Header.post" \in Events(r) /\ resp[r].body # ""
           /\ resp[r].status \in {200, 304})
        => /\ resp[r].hdr.etag = ETagOf(resp[r].body)
           /\ IF req[r].inm = ETagOf(resp[r].body)
              THEN resp[r].status = 304
              ELSE resp[r].hdr.cacheControl = CacheControlValue

\* what r's own computation could render: its format and its own URL around
\* the entries of some successful Handler result
OwnRenders(r) ==
    {GenerateFeed(DefaultQuery(req[r], "format", "rss"), out.items,
                  currentURL(req[r])) : out \in {o \in HandlerOutcomes : o.err = ""}}

\* C16: requests with one fingerprint have one payload: the bytes a hit
\* returns are bytes the requesting request's own computation would have
\* produced, whatever its remaining query parameters
C16_HitEqualsOwnRender ==
    \A r \in Reqs : lookup[r].hit => resp[r].body \in OwnRenders(r)

\* the entries other than k are the same in the maps a and b
SameElsewhere(a, b, k) ==
    /\ DOMAIN a \ {k} = DOMAIN b \ {k}
    /\ \A x \in DOMAIN a \ {k} : a[x] = b[x]

\* C18: Get returns the payload resident under the key (put there by the
\* most recent Set, entries being changed by nothing else) unless the entry
\* is expired, and a miss for an absent key: never set, deleted, evicted or
\* swept; Set leaves the payload resident and touches no other entry but the
\* evicted ones; Delete succeeds also on an absent key, removes the key and
\* changes no other entry; the sweep removes expired entries only
C18_GetReturnsLastSet ==
    /\ lastOp.op = "get"
       => /\ items = lastOp.before
          /\ IF lastOp.key \in DOMAIN lastOp.before
                /\ lastOp.at <= lastOp.before[lastOp.key].expiration
             THEN /\ lastOp.err = ""
                  /\ lastOp.value = lastOp.before[lastOp.key].value
             ELSE lastOp.err # "" /\ lastOp.value = ""
    /\ lastOp.op = "set"
       => /\ lastOp.key \in DOMAIN items
          /\ items[lastOp.key].value = lastOp.value
          /\ items[lastOp.key].expiration > lastOp.at
          /\ MemoryGet(items, lastOp.key, lastOp.at).value = lastOp.value
          /\ \A k \in DOMAIN items \ {lastOp.key} :
                k \in DOMAIN lastOp.before /\ items[k] = lastOp.before[k]
          /\ DOMAIN lastOp.before \ DOMAIN items \subseteq lastOp.evicted
    /\ lastOp.op = "delete"
       => /\ lastOp.err = ""
          /\ lastOp.key \notin DOMAIN items
          /\ SameElsewhere(items, lastOp.before, lastOp.key)
    /\ lastOp.op = "sweep"
       => \A k \in DOMAIN lastOp.before :
             IF lastOp.at > lastOp.before[k].expiration
             THEN k \notin DOMAIN items
             ELSE k \in DOMAIN items /\ items[k] = lastOp.before[k]

\* a key was deleted while another, set earlier and not expired, stayed
\* resident with its payload
C18_Witness ==
    /\ lastOp.op = "delete"
    /\ lastOp.key \in DOMAIN lastOp.before
    /\ \E k \in DOMAIN items :
          /\ k # lastOp.key
          /\ now <= items[k].expiration
          /\ MemoryGet(items, k, now).value = items[k].value

\* the TryGet call that just returned found a usable payload: present, not
\* expired, non-empty and decodable
TryUsable ==
    tg.got.err = "" /\ tg.got.value # "" /\ Unmarshal(tg.got.value).ok

\* the call that just returned found, unexpired, the very entry the previous
\* storing call for the same key had left
TryFoundPrev ==
    /\ tg.prevAtCall # NoPrev
    /\ tg.prevAtCall.key = tg.key
    /\ tg.seen = tg.prevAtCall.item
    /\ tg.at <= tg.seen.expiration

\* what holds of every returned call whether or not the result was stored
TryGetCore ==
    /\ TryUsable => /\ tg.calls = 0
                     /\ tg.err = ""
                     /\ tg.result = Unmarshal(tg.got.value).value
                     /\ ~tg.stored
    /\ ~TryUsable => tg.calls = 1
    /\ (~TryUsable /\ tg.gerr # "")
       => (tg.err = tg.gerr /\ ~tg.stored)
    /\ (~TryUsable /\ tg.gerr = "")
       => (tg.err = "" /\ tg.result = tg.gval)
    /\ tg.stored => /\ tg.prev.key = tg.key
                     /\ tg.prev.item.value = Marshal(tg.result).data
                     /\ tg.prev.result = tg.result
    /\ TryFoundPrev => (tg.calls = 0 /\ tg.result = tg.prevAtCall.result)

TQ == req[1].q
TIn == handled[1][1].items
TOut == feedData[1].items

\* the pattern and number parameters that take effect
BugPattern(name) == TQ[name] = "(?i)bug"
Seconds(str) == IF str = "3600" THEN 3600 ELSE 0
Count(str) == IF str = "1" THEN 1 ELSE IF str = "2" THEN 2 ELSE 0

\* an entry passes every filter in effect
Passes(item) ==
    /\ BugPattern("filter") => (item.titleHit \/ item.descHit)
    /\ BugPattern("filterout") => ~(item.titleHit \/ item.descHit)
    /\ BugPattern("filter_title") => item.titleHit
    /\ BugPattern("filter_description") => item.descHit
    /\ TQ["filter_time"] = "3600" => item.pub > now - Seconds("3600")

\* b may not stand before a in the order asked for
InOrder(a, b) ==
    IF TQ["sorted"] = "" THEN TRUE
    ELSE IF TQ["sorted"] = "desc" THEN a.pub >= b.pub ELSE a.pub <= b.pub

\* the entries that pass, in original order, and how many of them stay
Passed == SelectSeq(TIn, Passes)
Kept == IF Count(TQ["limit"]) > 0 /\ Count(TQ["limit"]) < Len(Passed)
        THEN Count(TQ["limit"]) ELSE Len(Passed)

Range(seq) == {seq[i] : i \in 1..Len(seq)}

\* C20: the transform filters (include, exclude, title, description,
\* freshness), then sorts, then limits: the result holds Kept entries that all
\* pass the filters, none twice, in the order asked for (original order when
\* unsorted: the first Kept of those that pass), and no entry left out belongs
\* before one that stayed; filter=(?i)bug on Bug A, Feature B, Bug C gives
\* Bug A, Bug C; filterout=(?i)bug, sorted=desc, limit=1 on entries
\* timestamped T, T+1h, T-1h gives the T+1h entry
C20_FilterSortLimit ==
    Done(1)
    => /\ Len(TOut) = Kept
       /\ Range(TOut) \subseteq Range(Passed)
       /\ \A i, j \in 1..Len(TOut) : i < j
             => (TOut[i] # TOut[j] /\ InOrder(TOut[i], TOut[j]))
       /\ \A x \in Range(Passed) \ Range(TOut) : \A y \in Range(TOut) :
             InOrder(y, x)
       /\ TQ["sorted"] = "" => TOut = SubSeq(Passed, 1, Kept)
       /\ (TIn = DocA /\ TQ = [NoQuery EXCEPT !["filter"] = "(?i)bug"])
          => TOut = <<DocA[1], DocA[3]>>
       /\ (TIn = DocA /\ TQ = [NoQuery EXCEPT !["filterout"] = "(?i)bug"])
          => TOut = <<DocA[2]>>
       /\ (TIn \in {DocA, DocPlain}
             /\ TQ = [NoQuery EXCEPT !["filterout"] = "(?i)bug",
                                     !["sorted"] = "desc", !["limit"] = "1"])
          => (Len(TOut) = 1 /\ TOut[1].pub = -3600)

\* filterout, sorted=desc and limit=1 were applied to three entries without
\* "bug" timestamped T, T+1h, T-1h and left the T+1h entry
C20_Witness ==
    /\ Done(1)
    /\ TIn = DocPlain
    /\ TQ = [NoQuery EXCEPT !["filterout"] = "(?i)bug", !["sorted"] = "desc",
                            !["limit"] = "1"]
    /\ TOut = <<DocPlain[2]>>

\* the parameters of request 1 that cannot take effect: a pattern
\* regexp.Compile rejects, a filter_time strconv.Atoi rejects, a limit that
\* is not a positive number
PatternNames == {"filter", "filterout", "filter_title", "filter_description"}
Invalid(name) ==
    /\ TQ[name] # ""
    /\ \/ name \in PatternNames /\ ~Compiles(TQ[name])
       \/ name = "filter_time" /\ ~AtoiOK(TQ[name])
       \/ name = "limit" /\ (~AtoiOK(TQ[name]) \/ Atoi(TQ[name]) <= 0)

\* the query of request 1 with the parameters in `names` left out
Without(names) ==
    [req[1] EXCEPT !.q = [n \in DOMAIN TQ |-> IF n \in names THEN "" ELSE TQ[n]]]

\* C21: an invalid regex in filter, filterout, filter_title or
\* filter_description, an invalid filter_time or a non-numeric or
\* non-positive limit makes its own step hand on the sequence it received:
\* the result is what the remaining steps give when the step is left out,
\* an invalid step on its own leaves the entries as they were, and the
\* request is not aborted
C21_InvalidStepIsNoOp ==
    Done(1)
    => /\ \A bad \in SUBSET {n \in DOMAIN TQ : Invalid(n)} :
             TOut \in transformItems(TIn, Without(bad), now)
       /\ (\A n \in DOMAIN TQ : n # "format" => (TQ[n] = "" \/ Invalid(n)))
          => TOut = TIn
       /\ abortedBy[1] = ""
       /\ index[1] # AbortIndex
       /\ ~resp[1].written

\* an invalid include pattern, an invalid filter_time and a negative limit
\* came with a working exclude filter and a descending sort, which still ran
C21_Witness ==
    /\ Done(1)
    /\ TIn = DocA
    /\ TQ = [NoQuery EXCEPT !["filter"] = "[invalid(", !["filter_time"] = "soon",
                            !["limit"] = "-1", !["filterout"] = "(?i)bug",
                            !["sorted"] = "desc"]
    /\ TOut = <<DocA[2]>>

\* the identifier a render gave its i-th entry: RSS guid, Atom id, JSON id
Identifier(o, i) ==
    IF o.format = "rss" THEN o.out.entries[i].guid ELSE o.out.entries[i].id

Renders == {rd.outs[n] : n \in 1..Len(rd.outs)}

\* every rendered entry's identifier is the GUID, or the link without one
IdentifierFallsBack ==
    \A o \in Renders : \A i \in 1..Len(rd.data.item) :
        Identifier(o, i) = IF rd.data.item[i].guid # "" THEN rd.data.item[i].guid
                           ELSE rd.data.item[i].link

\* C22: in all three renderers every rendered entry's identifier equals the
\* entry's GUID when it is non-empty and otherwise the entry's link, and
\* every rendered entry has a non-empty identifier
C22_IdentifierNonEmpty ==
    /\ IdentifierFallsBack
    /\ \A o \in Renders : \A i \in 1..Len(rd.data.item) : Identifier(o, i) # ""

\* C23: two renders of the same document and URL in the same format, made
\* at any two times, are identical
C23_RenderDeterministic ==
    \A a, b \in Renders : a.format = b.format => a.out = b.out

\* the attempts the call in progress has made, and the last of them
Attempts == Len(cl.seen)
LastAttempt == cl.seen[Attempts]

\* an attempt that ended in a 2xx response; an attempt the claim says is
\* tried again
Success(o) == o.kind = "resp" /\ o.status >= 200 /\ o.status <= 299
Retryable(o) ==
    \/ o.kind = "error"
    \/ o.kind = "resp" /\ (o.status \in {400, 408, 409, 425, 429} \/ o.status >= 500)

\* what holds of the attempts whatever a 2xx response's body does: at most
\* RequestRetry+1 of them, each but the last a retryable failure, none made
\* after a 2xx or a non-retryable status, no fewer than RequestRetry+1 when
\* the last one failed retryably
AttemptsCore ==
    /\ Attempts <= cl.maxRetries + 1
    /\ \A i \in 1..(Attempts - 1) : Retryable(cl.seen[i])
    /\ cl.pc = "loop" => (Attempts <= cl.maxRetries
                           /\ \A i \in 1..Attempts : Retryable(cl.seen[i]))
    /\ (cl.pc = "done" /\ cl.err # "invalid url")
       => /\ Attempts >= 1
          /\ (~Success(LastAttempt) /\ ~Retryable(LastAttempt))
             => (cl.err # "" /\ cl.body = "")
          /\ (cl.seen[1].kind = "resp" /\ cl.seen[1].status = 404)
             => (Attempts = 1 /\ cl.err # "")
          /\ Retryable(LastAttempt)
             => (Attempts = cl.maxRetries + 1 /\ cl.err # "" /\ cl.body = "")

\* C24 (as stated): at most RequestRetry+1 attempts per Get/Post; the call
\* stops at the first 2xx response and returns its body; it stops with an
\* error on a non-retryable status, after one attempt when 404 comes first;
\* it tries again after transport errors and statuses 400, 408, 409, 425, 429
\* and >= 500; when every attempt fails retryably it returns an error after
\* exactly RequestRetry+1 attempts
C24_RetryUntilSuccess ==
    /\ AttemptsCore
    /\ (cl.pc = "done" /\ Attempts >= 1 /\ Success(LastAttempt))
       => (cl.err = "" /\ cl.body = LastAttempt.body)

\* C24 (amended): as stated, except that the call stopping at the first 2xx
\* response returns its body when the body can be read, and otherwise the
\* error of reading it
C24_RetryUntilReadable ==
    /\ AttemptsCore
    /\ (cl.pc = "done" /\ Attempts >= 1 /\ Success(LastAttempt))
       => IF LastAttempt.readable
          THEN cl.err = "" /\ cl.body = LastAttempt.body
          ELSE cl.err # "" /\ cl.body = ""

\* with RequestRetry = 2, a 429 and a transport error were followed by a
\* 200 whose body was returned
C24_Witness ==
    /\ cl.pc = "done"
    /\ cl.maxRetries = 2
    /\ Attempts = 3
    /\ cl.seen[1].status = 429
    /\ cl.seen[2].kind = "error"
    /\ cl.seen[3].status = 200
    /\ cl.err = ""
    /\ cl.body = "payload"

\* the Get calls that have returned
GetReturned(p) == rc.call[p].op = "get" /\ rc.call[p].pc = "done"

\* C25: RedisCache.Get returns a payload only when the tracking key has
\* time left and the primary key exists: a Get that began with either key
\* missing, and that no other caller's write disturbed, reports a miss or an
\* error and returns no payload; a payload returned undisturbed is the
\* primary key's value, and no Get returns both a payload and an error
C25_HitNeedsBothKeys ==
    \A p \in RedisProcs :
        GetReturned(p)
        => /\ (rc.call[p].missing /\ ~rc.call[p].disturbed)
              => (rc.call[p].err # "" /\ rc.call[p].value = "")
           /\ (rc.call[p].value # "" /\ ~rc.call[p].disturbed)
              => rc.call[p].value = rc.data
           /\ rc.call[p].err = "" <=> rc.call[p].value # ""

\* a Set wrote the primary key and failed to write the tracking key; the
\* Get that followed found the payload there and reported a miss
C25_Witness ==
    \E p, q \in RedisProcs :
        /\ GetReturned(p)
        /\ rc.call[p].missing /\ ~rc.call[p].disturbed
        /\ rc.call[p].err = "cache miss or expired"
        /\ rc.data # "" /\ rc.exp = 0 /\ rc.est = 0
        /\ rc.call[q].op = "set" /\ rc.call[q].err = "tracking key not set"

\* C26: a hit re-arms the tracking key with the remaining TTL it has just
\* read: as long as no Get has re-armed the key across another caller's Set
\* or Delete, the tracking key never expires later than the last Set had it
\* expire
C26_HitsNeverExtendLifetime ==
    (rc.exp # 0 /\ ~rc.stale) => rc.exp <= rc.est

\* C30: whenever a Get and a Set of two callers have both returned, the Set
\* having written last and not after the Get began, the tracking key expires
\* when that Set had it expire: its remaining TTL is the ttl passed, less
\* the time elapsed
C30_SetLifetimeSurvivesGet ==
    \A p, q \in RedisProcs :
        (/\ p # q
         /\ rc.call[p].op = "set" /\ rc.call[p].pc = "done" /\ rc.call[p].clean
         /\ GetReturned(q) /\ rc.call[q].disturbed)
        => rc.exp = IF rc.est > now THEN rc.est ELSE 0

\* the last call was a Set of a key already resident in a store holding
\* maxItems entries
SetResidentOnFull ==
    /\ lastOp.op = "set"
    /\ lastOp.key \in DOMAIN lastOp.before
    /\ Cardinality(DOMAIN lastOp.before) = maxItems

\* C27: a Set of an already resident key on a store holding maxItems entries
\* replaces that key's entry in place: every other resident entry is still
\* resident, unchanged, and the entry count is the same
C27_ResidentSetReplacesInPlace ==
    SetResidentOnFull
    => /\ DOMAIN items = DOMAIN lastOp.before
       /\ \A k \in DOMAIN lastOp.before \ {lastOp.key} : items[k] = lastOp.before[k]
       /\ items[lastOp.key].value = lastOp.value

\* C28: every payload resident in the store under a fingerprint is the
\* complete body written to the response by a leader of that fingerprint
\* whose computation ended with status 200; no write is spawned with the
\* body of a follower, of a cache hit or of a response that is not a 200
C28_ResidentIsLeaderBody ==
    /\ \A k \in DOMAIN items :
          \E e \in setLog : /\ e.key = k
                            /\ e.value = items[k].value
                            /\ Led(e.by)
                            /\ CacheKey(req[e.by]) = k
                            /\ resp[e.by].status = 200
                            /\ resp[e.by].body = items[k].value
    /\ \A e \in setLog : /\ Led(e.by)
                         /\ ~lookup[e.by].hit
                         /\ e.status = 200
                         /\ e.value = resp[e.by].body
    /\ \A r \in Reqs :
          (Followed(r) \/ lookup[r].hit \/ resp[r].status # 200)
          => (pendingSet[r] = NoSet /\ \A e \in setLog : e.by # r)

\* a leader's 200 body is resident while a follower of the same call and a
\* request answered 500 have finished with nothing stored for them
C28_Witness ==
    \E l, f \in Reqs :
        /\ Led(l) /\ Done(l) /\ resp[l].status = 200
        /\ Followed(f) /\ joined[f] = l /\ Done(f) /\ resp[f].body # ""
        /\ CacheKey(req[l]) \in DOMAIN items
        /\ items[CacheKey(req[l])].value = resp[l].body
        /\ \A e \in setLog : e.by = l

\* C29: once a request has completed with a 200, a request for the same
\* fingerprint that arrives later does not invoke the Handler before a cached
\* payload's TTL can have elapsed, that is with a lookup made no later than
\* RouteExpire on the clock
C29_NoRecomputeWithinTTL ==
    \A p, q \in Reqs :
        (/\ p \in arrived[q]
         /\ resp[p].status = 200
         /\ CacheKey(req[q]) = CacheKey(req[p])
         /\ Len(handled[q]) > 0)
        => lookup[q].at > RouteExpire

====
